---------------------------- MODULE Spec2Model ----------------------------
(***************************************************************************)
(* Model of the helm-push plugin (src/cmd/helmpush/main.go).               *)
(*                                                                         *)
(* A Go string is the sequence of its bytes, each in 0..255.  Bytes("...") *)
(* is the Go string a literal denotes.  Positions are 1-based, At reads -1 *)
(* past the end, and Index returns 0 where Go's strings.Index returns -1.  *)
(* The standard library is modelled as of Go 1.19 and later; where the     *)
(* releases differ (the host of a URL), the release that built the plugin  *)
(* is part of the state.                                                   *)
(***************************************************************************)
EXTENDS Integers, Sequences, FiniteSets, TLC

(***************************************************************************)
(* Bytes and string literals.                                              *)
(***************************************************************************)

\* The printable ASCII characters a literal can hold, in the order of their
\* codes: 32 to 95, and 97 to 126.
AsciiLow  == " !\"#$%&'()*+,-./0123456789:;<=>?@ABCDEFGHIJKLMNOPQRSTUVWXYZ[\\]^_"
AsciiHigh == "abcdefghijklmnopqrstuvwxyz{|}~"

RECURSIVE CodeMap(_, _)
CodeMap(tbl, base) ==
    IF Len(tbl) = 0 THEN [c \in {} |-> 0]
    ELSE (SubSeq(tbl, 1, 1) :> base) @@ CodeMap(SubSeq(tbl, 2, Len(tbl)), base + 1)

\* The code of each character of a literal.
CodeOf ==
    CodeMap(AsciiLow, 32) @@ CodeMap(AsciiHigh, 97)
        @@ ("\t" :> 9) @@ ("\n" :> 10) @@ ("\f" :> 12) @@ ("\r" :> 13)

\* The byte a character literal such as 'a' denotes.
Code(c) == CodeOf[c]

\* The Go string a string literal denotes.
RECURSIVE Bytes(_)
Bytes(lit) ==
    IF Len(lit) = 0 THEN << >>
    ELSE << Code(SubSeq(lit, 1, 1)) >> \o Bytes(SubSeq(lit, 2, Len(lit)))

\* The bytes a literal holds, as a set.
Codes(lit) == { Code(SubSeq(lit, i, i)) : i \in 1..Len(lit) }

Letters == Codes("abcdefghijklmnopqrstuvwxyzABCDEFGHIJKLMNOPQRSTUVWXYZ")
DecDigits == Codes("0123456789")
HexChars == Codes("0123456789abcdefABCDEF")

\* s[i-1] in Go; -1 past either end.
At(s, i) == IF 1 <= i /\ i <= Len(s) THEN s[i] ELSE -1

\* s[i-1:] in Go.
From(s, i) == SubSeq(s, i, Len(s))

SetMin(S) == CHOOSE x \in S : \A y \in S : x <= y
SetMax(S) == CHOOSE x \in S : \A y \in S : x >= y

(***************************************************************************)
(* Packages strings, strconv, fmt and path/filepath, as main.go and the    *)
(* packages below use them.                                                *)
(***************************************************************************)

\* strings.HasPrefix
HasPrefix(s, prefix) ==
    /\ Len(s) >= Len(prefix)
    /\ SubSeq(s, 1, Len(prefix)) = prefix

\* strings.HasSuffix
HasSuffix(s, suffix) ==
    /\ Len(s) >= Len(suffix)
    /\ SubSeq(s, Len(s) - Len(suffix) + 1, Len(s)) = suffix

\* The positions at which sub occurs in s.
Occurrences(s, sub) ==
    { i \in 1..(Len(s) - Len(sub) + 1) : SubSeq(s, i, i + Len(sub) - 1) = sub }

\* strings.Index: the position of the first occurrence of sub in s, 0 if none.
Index(s, sub) ==
    IF Occurrences(s, sub) = {} THEN 0 ELSE SetMin(Occurrences(s, sub))

\* strings.LastIndex: the position of the last occurrence, 0 if none.
LastIndex(s, sub) ==
    IF Occurrences(s, sub) = {} THEN 0 ELSE SetMax(Occurrences(s, sub))

\* strings.Contains
Contains(s, sub) == Occurrences(s, sub) # {}

\* strings.Count of a one-byte sub.
Count(s, sub) == Cardinality(Occurrences(s, sub))

\* strings.Cut: s around the first sep.  [before, after, found]
Cut(s, sep) ==
    IF ~Contains(s, sep) THEN [before |-> s, after |-> << >>, found |-> FALSE]
    ELSE [before |-> SubSeq(s, 1, Index(s, sep) - 1),
          after |-> From(s, Index(s, sep) + Len(sep)), found |-> TRUE]

\* strings.Replace(s, old, new, n) for a non-empty old: the first n
\* occurrences of old are replaced (all of them when n < 0).
RECURSIVE Replace(_, _, _, _)
Replace(s, old, new, n) ==
    IF n = 0 \/ ~Contains(s, old)
    THEN s
    ELSE SubSeq(s, 1, Index(s, old) - 1) \o new
           \o Replace(From(s, Index(s, old) + Len(old)), old, new, n - 1)

\* strings.Split(s, sep) for a non-empty sep.
RECURSIVE Split(_, _)
Split(s, sep) ==
    IF ~Contains(s, sep)
    THEN << s >>
    ELSE << SubSeq(s, 1, Index(s, sep) - 1) >>
           \o Split(From(s, Index(s, sep) + Len(sep)), sep)

\* strings.Join
RECURSIVE Join(_, _)
Join(parts, sep) ==
    IF Len(parts) = 0 THEN << >>
    ELSE IF Len(parts) = 1 THEN parts[1]
    ELSE parts[1] \o sep \o Join(Tail(parts), sep)

\* strings.ToLower of a string whose letters are ASCII.
ToLower(s) ==
    [i \in 1..Len(s) |-> IF 65 <= s[i] /\ s[i] <= 90 THEN s[i] + 32 ELSE s[i]]

\* fmt's %d of an int.
RECURSIVE Itoa(_)
Itoa(n) ==
    IF n < 0 THEN << Code("-") >> \o Itoa(0 - n)
    ELSE IF n < 10 THEN << 48 + n >>
    ELSE Itoa(n \div 10) \o << 48 + (n % 10) >>

\* strconv.ParseBool: the value and whether parsing failed.
ParseBool(v) ==
    IF v \in { Bytes("1"), Bytes("t"), Bytes("T"), Bytes("TRUE"), Bytes("true"),
               Bytes("True") }
        THEN [val |-> TRUE, err |-> FALSE]
    ELSE IF v \in { Bytes("0"), Bytes("f"), Bytes("F"), Bytes("FALSE"),
                    Bytes("false"), Bytes("False") }
        THEN [val |-> FALSE, err |-> FALSE]
    ELSE [val |-> FALSE, err |-> TRUE]

\* filepath.Base strips the trailing slashes.
RECURSIVE TrimSlashes(_)
TrimSlashes(path) ==
    IF Len(path) > 0 /\ path[Len(path)] = Code("/")
    THEN TrimSlashes(SubSeq(path, 1, Len(path) - 1))
    ELSE path

\* filepath.Base (the separator is the slash, and there are no volume
\* names): the last element of the path; a path of slashes only is "/".
Base(path) ==
    IF path = << >> THEN Bytes(".")
    ELSE IF TrimSlashes(path) = << >> THEN Bytes("/")
    ELSE From(TrimSlashes(path), LastIndex(TrimSlashes(path), Bytes("/")) + 1)

(***************************************************************************)
(* unicode/utf8 and unicode/utf16.                                         *)
(***************************************************************************)

RuneError == 65533          \* U+FFFD

\* utf8.EncodeRune
EncodeRune(r) ==
    IF r < 0 \/ r > 1114111 \/ (55296 <= r /\ r <= 57343)
        THEN << 239, 191, 189 >>
    ELSE IF r <= 127 THEN << r >>
    ELSE IF r <= 2047 THEN << 192 + (r \div 64), 128 + (r % 64) >>
    ELSE IF r <= 65535
        THEN << 224 + (r \div 4096), 128 + ((r \div 64) % 64), 128 + (r % 64) >>
    ELSE << 240 + (r \div 262144), 128 + ((r \div 4096) % 64),
            128 + ((r \div 64) % 64), 128 + (r % 64) >>

\* The size of the encoding that starts with byte p0, 0 if none does (utf8's
\* table first).
RuneSize(p0) ==
    IF p0 < 128 THEN 1
    ELSE IF p0 < 194 THEN 0
    ELSE IF p0 < 224 THEN 2
    ELSE IF p0 < 240 THEN 3
    ELSE IF p0 < 245 THEN 4
    ELSE 0

\* utf8.DecodeRune(p[i-1:]) finds a rune of RuneSize(p[i]) bytes at position
\* i: the second byte is in the range the first allows (utf8's
\* acceptRanges), the others are continuation bytes.  Where it finds none,
\* the rune is RuneError and its width 1.
ValidRuneAt(p, i) ==
    /\ RuneSize(p[i]) >= 1
    /\ i + RuneSize(p[i]) - 1 <= Len(p)
    /\ RuneSize(p[i]) >= 2 =>
          /\ p[i + 1] >= (IF p[i] = 224 THEN 160 ELSE IF p[i] = 240 THEN 144 ELSE 128)
          /\ p[i + 1] <= (IF p[i] = 237 THEN 159 ELSE IF p[i] = 244 THEN 143 ELSE 191)
    /\ \A k \in 2..(RuneSize(p[i]) - 1) : 128 <= p[i + k] /\ p[i + k] <= 191

\* utf16.IsSurrogate
IsSurrogate(r) == 55296 <= r /\ r < 57344

\* utf16.DecodeRune
DecodeRune16(r1, r2) ==
    IF 55296 <= r1 /\ r1 < 56320 /\ 56320 <= r2 /\ r2 < 57344
    THEN (r1 - 55296) * 1024 + (r2 - 56320) + 65536
    ELSE RuneError

(***************************************************************************)
(* encoding/json: json.Unmarshal(b, &er) for er of type                    *)
(* struct{ Error string `json:"error"` }.  A value is first checked        *)
(* against the grammar (checkValid), then decoded: a string literal is     *)
(* unquoted, each key is matched with the field, and the value of a        *)
(* matching key is stored if it is a string.                               *)
(***************************************************************************)

IsDigit(c) == 48 <= c /\ c <= 57
IsHex(c) == c \in HexChars

\* The result of parsing a value: the position after it, its kind ("string",
\* "number", "object", "array", "bool", "null"), the text of a string, and the
\* members of an object as << [key, kind, str] >>.
Fail == [ok |-> FALSE, next |-> 0, kind |-> "", str |-> << >>, members |-> << >>]
Parsed(n, k, s, ms) == [ok |-> TRUE, next |-> n, kind |-> k, str |-> s, members |-> ms]

RECURSIVE SkipWS(_, _)
SkipWS(b, i) == IF At(b, i) \in { 32, 9, 13, 10 } THEN SkipWS(b, i + 1) ELSE i

RECURSIVE SkipDigits(_, _)
SkipDigits(b, i) == IF IsDigit(At(b, i)) THEN SkipDigits(b, i + 1) ELSE i

\* The value of a hexadecimal digit (unhex in net/url, getu4 in json).
Unhex(c) ==
    IF 48 <= c /\ c <= 57 THEN c - 48
    ELSE IF 97 <= c /\ c <= 102 THEN c - 97 + 10
    ELSE IF 65 <= c /\ c <= 70 THEN c - 65 + 10
    ELSE 0

\* getu4(b[i-1:]): the rune that \uXXXX at position i names, -1 if there is
\* no such escape there.
Getu4(b, i) ==
    IF /\ i + 5 <= Len(b)
       /\ b[i] = Code("\\") /\ b[i + 1] = Code("u")
       /\ \A k \in 2..5 : IsHex(b[i + k])
    THEN 4096 * Unhex(b[i + 2]) + 256 * Unhex(b[i + 3])
           + 16 * Unhex(b[i + 4]) + Unhex(b[i + 5])
    ELSE -1

\* unquoteBytes: what the one-character escape \e stands for.
Unescape(e) ==
    CASE e = Code("b") -> << 8 >>
      [] e = Code("f") -> << 12 >>
      [] e = Code("n") -> << 10 >>
      [] e = Code("r") -> << 13 >>
      [] e = Code("t") -> << 9 >>
      [] OTHER -> << e >>             \* the quote, the backslash, the slash

\* The string literal whose opening quote is at position i - 1, unquoted:
\* acc is the text so far.  A \uXXXX is the UTF-8 of its rune; a surrogate
\* followed by the escape of its other half is the rune of the pair, and any
\* other surrogate the replacement character; bytes that are not UTF-8 are
\* replaced likewise.
RECURSIVE StringBody(_, _, _)
StringBody(b, i, acc) ==
    LET c == At(b, i)
        e == At(b, i + 1)
    IN  IF c = -1 THEN Fail
        ELSE IF c = Code("\"") THEN Parsed(i + 1, "string", acc, << >>)
        ELSE IF c = Code("\\") THEN
            IF e \in Codes("\"\\/bfnrt")
                THEN StringBody(b, i + 2, acc \o Unescape(e))
            ELSE IF Getu4(b, i) = -1 THEN Fail
            ELSE IF ~IsSurrogate(Getu4(b, i))
                THEN StringBody(b, i + 6, acc \o EncodeRune(Getu4(b, i)))
            ELSE IF DecodeRune16(Getu4(b, i), Getu4(b, i + 6)) # RuneError
                THEN StringBody(b, i + 12, acc \o
                         EncodeRune(DecodeRune16(Getu4(b, i), Getu4(b, i + 6))))
            ELSE StringBody(b, i + 6, acc \o EncodeRune(RuneError))
        ELSE IF c < 32 THEN Fail
        ELSE IF c < 128 THEN StringBody(b, i + 1, acc \o << c >>)
        ELSE IF ValidRuneAt(b, i)
            THEN StringBody(b, i + RuneSize(c),
                            acc \o SubSeq(b, i, i + RuneSize(c) - 1))
        ELSE StringBody(b, i + 1, acc \o EncodeRune(RuneError))

\* A number starting at i: -? (0 | [1-9][0-9]*) (. [0-9]+)? ([eE] [+-]? [0-9]+)?
\* The position after it, 0 if there is none.
NumberEnd(b, i) ==
    LET i1 == IF At(b, i) = Code("-") THEN i + 1 ELSE i
        i2 == IF At(b, i1) = Code("0") THEN i1 + 1
              ELSE IF IsDigit(At(b, i1)) THEN SkipDigits(b, i1 + 1)
              ELSE 0
        i3 == IF i2 = 0 THEN 0
              ELSE IF At(b, i2) # Code(".") THEN i2
              ELSE IF IsDigit(At(b, i2 + 1)) THEN SkipDigits(b, i2 + 1)
              ELSE 0
        j  == IF At(b, i3 + 1) \in { Code("+"), Code("-") } THEN i3 + 2 ELSE i3 + 1
    IN  IF i3 = 0 THEN 0
        ELSE IF At(b, i3) \notin { Code("e"), Code("E") } THEN i3
        ELSE IF IsDigit(At(b, j)) THEN SkipDigits(b, j)
        ELSE 0

\* A number literal that ends before position n (0: there is none).
NumberValue(n) == IF n = 0 THEN Fail ELSE Parsed(n, "number", << >>, << >>)

\* The deepest nesting of arrays and objects the scanner accepts
\* (maxNestingDepth of scanner.go).
maxNestingDepth == 10000

RECURSIVE ParseValue(_, _, _)
RECURSIVE ParseMembers(_, _, _, _)
RECURSIVE MemberKey(_, _, _, _)
RECURSIVE MemberValue(_, _, _, _, _)
RECURSIVE ParseElements(_, _, _)
RECURSIVE ElementsAfter(_, _, _)

\* The JSON value that starts at or after position i0, inside depth arrays
\* and objects.  An opening bracket or brace is pushed on the scanner's
\* parse state (pushParseState), which may not grow beyond maxNestingDepth.
ParseValue(b, i0, depth) ==
    LET i == SkipWS(b, i0)
        c == At(b, i)
        j == SkipWS(b, i + 1)
    IN  CASE c = Code("\"") -> StringBody(b, i + 1, << >>)
          [] c = Code("{")  -> IF depth + 1 > maxNestingDepth THEN Fail
                               ELSE IF At(b, j) = Code("}")
                                   THEN Parsed(j + 1, "object", << >>, << >>)
                                   ELSE ParseMembers(b, j, << >>, depth + 1)
          [] c = Code("[")  -> IF depth + 1 > maxNestingDepth THEN Fail
                               ELSE IF At(b, j) = Code("]")
                                   THEN Parsed(j + 1, "array", << >>, << >>)
                                   ELSE ParseElements(b, j, depth + 1)
          [] c = Code("-") \/ IsDigit(c) -> NumberValue(NumberEnd(b, i))
          [] HasPrefix(From(b, i), Bytes("true"))  -> Parsed(i + 4, "bool", << >>, << >>)
          [] HasPrefix(From(b, i), Bytes("false")) -> Parsed(i + 5, "bool", << >>, << >>)
          [] HasPrefix(From(b, i), Bytes("null"))  -> Parsed(i + 4, "null", << >>, << >>)
          [] OTHER    -> Fail

\* An object's members from the key at position i on: "key" : value (, ...)* }
\* acc holds the members before it, and depth counts the object itself.
ParseMembers(b, i, acc, depth) ==
    IF At(b, i) # Code("\"") THEN Fail
    ELSE MemberKey(b, acc, StringBody(b, i + 1, << >>), depth)

\* The member whose key k has been read: the colon and the value follow.
MemberKey(b, acc, k, depth) ==
    IF ~k.ok THEN Fail
    ELSE IF At(b, SkipWS(b, k.next)) # Code(":") THEN Fail
    ELSE MemberValue(b, acc, k, ParseValue(b, SkipWS(b, k.next) + 1, depth), depth)

\* The member whose key k and value v have been read: the object ends, or a
\* comma and the next member follow.
MemberValue(b, acc, k, v, depth) ==
    IF ~v.ok THEN Fail
    ELSE IF At(b, SkipWS(b, v.next)) = Code("}")
        THEN Parsed(SkipWS(b, v.next) + 1, "object", << >>,
                    Append(acc, [key |-> k.str, kind |-> v.kind, str |-> v.str]))
    ELSE IF At(b, SkipWS(b, v.next)) = Code(",")
        THEN ParseMembers(b, SkipWS(b, SkipWS(b, v.next) + 1),
                          Append(acc, [key |-> k.str, kind |-> v.kind, str |-> v.str]),
                          depth)
    ELSE Fail

\* An array's elements from position i on: value (, value)* ]
ParseElements(b, i, depth) == ElementsAfter(b, ParseValue(b, i, depth), depth)

\* The array whose element v has been read: the array ends, or a comma and
\* the next element follow.
ElementsAfter(b, v, depth) ==
    IF ~v.ok THEN Fail
    ELSE IF At(b, SkipWS(b, v.next)) = Code("]")
        THEN Parsed(SkipWS(b, v.next) + 1, "array", << >>, << >>)
    ELSE IF At(b, SkipWS(b, v.next)) = Code(",")
        THEN ParseElements(b, SkipWS(b, v.next) + 1, depth)
    ELSE Fail

\* The folding under which a key is compared with a field name made of
\* letters other than k and s: the case bit of every byte is cleared.
FoldName(s) == [i \in 1..Len(s) |-> IF (s[i] \div 32) % 2 = 1 THEN s[i] - 32 ELSE s[i]]

\* Whether a key is stored into the field with the json tag name: it is the
\* name, or folds to what the name folds to.
MatchesField(key, name) == key = name \/ FoldName(key) = FoldName(name)

\* The text the members leave in the string field name: each string value
\* is stored in turn, and a null leaves the field as it is.
RECURSIVE StoreField(_, _, _)
StoreField(members, name, cur) ==
    IF members = << >> THEN cur
    ELSE StoreField(Tail(members), name,
                    IF MatchesField(Head(members).key, name)
                       /\ Head(members).kind = "string"
                    THEN Head(members).str ELSE cur)

\* The value v, the whole of the input b, decoded into er: whether that is an
\* error, and er.Error.
Decode(b, v) ==
    IF ~v.ok \/ SkipWS(b, v.next) <= Len(b)
        THEN [err |-> TRUE, Error |-> << >>]              \* SyntaxError
    ELSE IF v.kind = "null"
        THEN [err |-> FALSE, Error |-> << >>]
    ELSE IF v.kind # "object"
        THEN [err |-> TRUE, Error |-> << >>]              \* UnmarshalTypeError
    ELSE [err   |-> \E k \in 1..Len(v.members) :
                        /\ MatchesField(v.members[k].key, Bytes("error"))
                        /\ v.members[k].kind \notin { "string", "null" },
          Error |-> StoreField(v.members, Bytes("error"), << >>)]

\* json.Unmarshal(b, &er): whether it returns an error, and er.Error.
Unmarshal(b) == Decode(b, ParseValue(b, 1, 0))

(***************************************************************************)
(* net/url: url.Parse and URL.String.                                   *)
(***************************************************************************)

\* An error of package net/url below the *url.Error that Parse wraps it in:
\* kind "EscapeError" or "InvalidHostError" with the offending text as arg,
\* "errorString" with the message as arg, "invalid port" with the text
\* after the host as arg (the message quotes it: invalid port %q after host),
\* or "invalid host" with the text netip.ParseAddr refused as arg.
NoError == [kind |-> "", arg |-> << >>]
UrlError(kind, arg) == [kind |-> kind, arg |-> arg]

AlphaNum == Letters \cup DecDigits
HostAllowed == Codes("!$&'()*+,;=:[]<>\"")
Unreserved == Codes("-_.~")
Reserved == Codes("$&+,/:;=?@")

\* shouldEscape(c, mode)
shouldEscape(c, mode) ==
    IF c \in AlphaNum THEN FALSE
    ELSE IF mode \in { "encodeHost", "encodeZone" } /\ c \in HostAllowed THEN FALSE
    ELSE IF c \in Unreserved THEN FALSE
    ELSE IF c \in Reserved /\ mode = "encodePath" THEN c = Code("?")
    ELSE IF c \in Reserved /\ mode = "encodePathSegment" THEN c \in Codes("/;,?")
    ELSE IF c \in Reserved /\ mode = "encodeUserPassword" THEN c \in Codes("@/?:")
    ELSE IF c \in Reserved /\ mode = "encodeQueryComponent" THEN TRUE
    ELSE IF c \in Reserved /\ mode = "encodeFragment" THEN FALSE
    ELSE IF mode = "encodeFragment" /\ c \in Codes("!()*") THEN FALSE
    ELSE TRUE

UpperHex == Bytes("0123456789ABCDEF")
Pct25 == Bytes("%25")

\* escape(s, mode)
RECURSIVE escape(_, _)
escape(s, mode) ==
    IF s = << >> THEN << >>
    ELSE (IF ~shouldEscape(s[1], mode) THEN << s[1] >>
          ELSE IF s[1] = 32 /\ mode = "encodeQueryComponent" THEN << Code("+") >>
          ELSE << Code("%"), UpperHex[(s[1] \div 16) + 1], UpperHex[(s[1] % 16) + 1] >>)
         \o escape(Tail(s), mode)

\* unescape's first pass, at position i of s: the error it returns there.
EscapeProblem(s, i, mode) ==
    IF s[i] = Code("%") THEN
        IF i + 2 > Len(s) \/ ~IsHex(At(s, i + 1)) \/ ~IsHex(At(s, i + 2))
            THEN UrlError("EscapeError", SubSeq(s, i, IF i + 2 > Len(s) THEN Len(s) ELSE i + 2))
        ELSE IF /\ mode = "encodeHost"
                /\ Unhex(s[i + 1]) < 8
                /\ SubSeq(s, i, i + 2) # Pct25
            THEN UrlError("EscapeError", SubSeq(s, i, i + 2))
        ELSE IF /\ mode = "encodeZone"
                /\ SubSeq(s, i, i + 2) # Pct25
                /\ 16 * Unhex(s[i + 1]) + Unhex(s[i + 2]) # 32
                /\ shouldEscape(16 * Unhex(s[i + 1]) + Unhex(s[i + 2]), "encodeHost")
            THEN UrlError("EscapeError", SubSeq(s, i, i + 2))
        ELSE NoError
    ELSE IF /\ mode \in { "encodeHost", "encodeZone" }
            /\ s[i] < 128
            /\ shouldEscape(s[i], "encodeHost")
        THEN UrlError("InvalidHostError", << s[i] >>)
    ELSE NoError

\* unescape's second pass: each escape is the byte it names, and in a query
\* component a plus sign is a space.
RECURSIVE Unescaped(_, _)
Unescaped(s, mode) ==
    IF s = << >> THEN << >>
    ELSE IF s[1] = Code("%")
        THEN << 16 * Unhex(s[2]) + Unhex(s[3]) >> \o Unescaped(From(s, 4), mode)
    ELSE IF s[1] = Code("+") /\ mode = "encodeQueryComponent"
        THEN << 32 >> \o Unescaped(Tail(s), mode)
    ELSE << s[1] >> \o Unescaped(Tail(s), mode)

UnescapeAt(s, mode, bad) ==
    IF bad # {}
    THEN [err |-> EscapeProblem(s, SetMin(bad), mode), s |-> << >>]
    ELSE [err |-> NoError, s |-> Unescaped(s, mode)]

\* unescape(s, mode): [err, s]
unescape(s, mode) ==
    UnescapeAt(s, mode, { i \in 1..Len(s) : EscapeProblem(s, i, mode) # NoError })

\* validEncoded(s, mode)
ValidEncodedChars == Codes("!$&'()*+,;=:@[]%")
validEncoded(s, mode) ==
    \A i \in 1..Len(s) : s[i] \in ValidEncodedChars \/ ~shouldEscape(s[i], mode)

\* A *Userinfo: set is FALSE for the nil pointer.
NoUser == [set |-> FALSE, username |-> << >>, password |-> << >>,
           passwordSet |-> FALSE]

\* The fields of a url.URL.
NoURL == [Scheme |-> << >>, Opaque |-> << >>, User |-> NoUser, Host |-> << >>,
          Path |-> << >>, RawPath |-> << >>, OmitHost |-> FALSE,
          ForceQuery |-> FALSE, RawQuery |-> << >>, Fragment |-> << >>,
          RawFragment |-> << >>]

\* getScheme: the scheme ends at the first colon, if all before it are
\* letters or, after the first character, digits, plus, minus or period.
\* [scheme, rest, err]
SchemeChars == Letters \cup DecDigits \cup Codes("+-.")
SchemeAt(rawURL, stops) ==
    IF stops = {} \/ rawURL[SetMin(stops)] # Code(":")
        THEN [scheme |-> << >>, rest |-> rawURL, err |-> FALSE]
    ELSE IF SetMin(stops) = 1
        THEN [scheme |-> << >>, rest |-> << >>, err |-> TRUE]
    ELSE [scheme |-> SubSeq(rawURL, 1, SetMin(stops) - 1),
          rest |-> From(rawURL, SetMin(stops) + 1), err |-> FALSE]
getScheme(rawURL) ==
    SchemeAt(rawURL, { i \in 1..Len(rawURL) :
                          /\ rawURL[i] \notin Letters
                          /\ i = 1 \/ rawURL[i] \notin SchemeChars })

\* validOptionalPort
validOptionalPort(port) ==
    \/ port = << >>
    \/ /\ port[1] = Code(":")
       /\ \A i \in 2..Len(port) : IsDigit(port[i])

(***************************************************************************)
(* netip.ParseAddr, which parseHost applies to a bracketed host from       *)
(* go1.24.8 on.                                                            *)
(***************************************************************************)

\* The number of hexadecimal digits s starts with.
HexRun(s) ==
    IF \A k \in 1..Len(s) : IsHex(s[k]) THEN Len(s)
    ELSE SetMin({ k \in 1..Len(s) : ~IsHex(s[k]) }) - 1

\* The number the hexadecimal digits s write.
RECURSIVE HexValue(_)
HexValue(s) ==
    IF s = << >> THEN 0
    ELSE 16 * HexValue(SubSeq(s, 1, Len(s) - 1)) + Unhex(s[Len(s)])

\* The number the decimal digits f write.
RECURSIVE DecValue(_)
DecValue(f) ==
    IF f = << >> THEN 0
    ELSE 10 * DecValue(SubSeq(f, 1, Len(f) - 1)) + (f[Len(f)] - 48)

\* parseIPv4Fields: four decimal fields of at most 255, none empty and none
\* with a leading zero, separated by dots.
ValidIPv4(s) ==
    /\ Len(Split(s, << Code(".") >>)) = 4
    /\ \A n \in 1..4 :
          LET f == Split(s, << Code(".") >>)[n]
          IN  /\ Len(f) \in 1..3
              /\ \A k \in 1..Len(f) : IsDigit(f[k])
              /\ Len(f) > 1 => f[1] # Code("0")
              /\ DecValue(f) <= 255

\* The four bytes of a valid IPv4 address s as two groups of sixteen bits.
IPv4Groups(s) ==
    << 256 * DecValue(Split(s, << Code(".") >>)[1])
           + DecValue(Split(s, << Code(".") >>)[2]),
       256 * DecValue(Split(s, << Code(".") >>)[3])
           + DecValue(Split(s, << Code(".") >>)[4]) >>

\* parseIPv6: [ok, groups], the eight groups of sixteen bits of the address.
NoAddr6 == [ok |-> FALSE, groups |-> << >>]

\* The address read as head :: tail: the :: stands for the groups of zeros
\* that are missing.
Addr6(head, tail) ==
    [ok |-> TRUE,
     groups |-> head \o [k \in 1..(8 - Len(head) - Len(tail)) |-> 0] \o tail]

\* The loop of parseIPv6: s is what is left to read, i the number of
\* address bytes filled, ellipsis whether :: has been read, head the groups
\* read before it and tail those read after it.  A group is one to four
\* hexadecimal digits; a dot after the digits starts a trailing IPv4 address
\* of four bytes; the address has 16 bytes, or fewer and a ::.
RECURSIVE IPv6Groups(_, _, _, _, _)
IPv6Groups(s, i, ellipsis, head, tail) ==
    LET off == HexRun(s)
    IN  IF i >= 16 THEN NoAddr6                \* s is not empty here
        ELSE IF off > 4 \/ off = 0 THEN NoAddr6
        ELSE IF At(s, off + 1) = Code(".")
            THEN IF /\ ellipsis \/ i = 12
                    /\ i + 4 <= 16
                    /\ ValidIPv4(s)
                    /\ i + 4 < 16 <=> ellipsis
                 THEN IF ellipsis THEN Addr6(head, tail \o IPv4Groups(s))
                      ELSE Addr6(head \o IPv4Groups(s), tail)
                 ELSE NoAddr6
        ELSE IF off = Len(s)
            THEN IF i + 2 < 16 <=> ellipsis
                 THEN IF ellipsis THEN Addr6(head, tail \o << HexValue(s) >>)
                      ELSE Addr6(head \o << HexValue(s) >>, tail)
                 ELSE NoAddr6
        ELSE IF s[off + 1] # Code(":") \/ off + 1 = Len(s) THEN NoAddr6
        ELSE IF s[off + 2] = Code(":")
            THEN IF ellipsis THEN NoAddr6
                 ELSE IF off + 2 = Len(s)
                     THEN IF i + 2 < 16
                          THEN Addr6(head \o << HexValue(SubSeq(s, 1, off)) >>, tail)
                          ELSE NoAddr6
                 ELSE IPv6Groups(From(s, off + 3), i + 2, TRUE,
                                 head \o << HexValue(SubSeq(s, 1, off)) >>, tail)
        ELSE IF ellipsis
            THEN IPv6Groups(From(s, off + 2), i + 2, ellipsis,
                            head, tail \o << HexValue(SubSeq(s, 1, off)) >>)
        ELSE IPv6Groups(From(s, off + 2), i + 2, ellipsis,
                        head \o << HexValue(SubSeq(s, 1, off)) >>, tail)

\* parseIPv6: a zone, what follows the first %, is not empty, and the
\* address before it may start with :: and may be :: alone.
parseIPv6(s) ==
    LET pct  == Index(s, << Code("%") >>)
        addr == IF pct = 0 THEN s ELSE SubSeq(s, 1, pct - 1)
    IN  IF pct # 0 /\ pct = Len(s) THEN NoAddr6
        ELSE IF HasPrefix(addr, Bytes("::"))
            THEN IF Len(addr) = 2 THEN Addr6(<< >>, << >>)
                 ELSE IPv6Groups(From(addr, 3), 0, TRUE, << >>, << >>)
        ELSE IPv6Groups(addr, 0, FALSE, << >>, << >>)

\* Addr.Is4In6: the address is an IPv4-mapped one, ::ffff:0:0/96.
Is4In6(groups) ==
    /\ \A k \in 1..5 : groups[k] = 0
    /\ groups[6] = 65535

\* What ParseAddr returns for an address with a colon.
Addr6Kind(a) ==
    IF ~a.ok THEN ""
    ELSE IF Is4In6(a.groups) THEN "ip4in6"
    ELSE "ip6"

\* netip.ParseAddr(s), by what Is4 and Is4In6 say of the address: "ip4",
\* "ip4in6", "ip6", or "" where it returns an error.  The first of . : %
\* decides what s is parsed as.
ParseAddr(s) ==
    LET marks == { k \in 1..Len(s) : s[k] \in Codes(".:%") }
    IN  IF marks = {} THEN ""
        ELSE IF s[SetMin(marks)] = Code(".") THEN IF ValidIPv4(s) THEN "ip4" ELSE ""
        ELSE IF s[SetMin(marks)] = Code(":") THEN Addr6Kind(parseIPv6(s))
        ELSE ""

\* The releases of Go from which net/url parses a host as it does until the
\* next.  go1.19 takes any text between brackets at the start of the host.
\* go1.24.8 (and go1.25.2) looks for the last opening bracket, drops what
\* stands before it, and takes only an IPv6 address between the brackets,
\* and no IPv4-mapped one.  go1.24.10 (and go1.25.4) takes the IPv4-mapped
\* ones again.  go1.26 reads the port of a host without brackets after its
\* first colon when the GODEBUG setting urlstrictcolons is 1, which is not
\* the default of a program built without a go.mod, and after its last
\* colon otherwise, as every release before it does.  go1.26.1 (and
\* go1.25.8, which has no such setting) refuses an opening bracket that is
\* not the first character of the host.
GoVersions == { "go1.19", "go1.24.8", "go1.24.10", "go1.26", "go1.26.1" }

\* parseHost: [err, host]
HostFailed(e) == [err |-> e, host |-> << >>]

ParseZone(host, i, zone, h1, h2, h3) ==
    IF h1.err # NoError THEN HostFailed(h1.err)
    ELSE IF h2.err # NoError THEN HostFailed(h2.err)
    ELSE IF h3.err # NoError THEN HostFailed(h3.err)
    ELSE [err |-> NoError, host |-> h1.s \o h2.s \o h3.s]

\* parseHost from go1.24.8 on, with the bracketed host h unescaped and
\* addr what ParseAddr says of the text between the brackets: it is an IPv6
\* address, and in go1.24.8 not an IPv4-mapped one.
BracketedKind(h, inner, addr, go) ==
    IF addr = "" THEN HostFailed(UrlError("invalid host", inner))
    ELSE IF addr = "ip4" \/ (addr = "ip4in6" /\ go.release = "go1.24.8")
        THEN HostFailed(UrlError("errorString", Bytes("invalid IP-literal")))
    ELSE h

BracketedAddr(h, go) ==
    IF h.err # NoError \/ go.release = "go1.19" THEN h
    ELSE BracketedKind(h, SubSeq(h.host, 2, LastIndex(h.host, << Code("]") >>) - 1),
             ParseAddr(SubSeq(h.host, 2, LastIndex(h.host, << Code("]") >>) - 1)),
             go)

\* parseHost, of a host that starts with a bracket: i is the position of the
\* last closing bracket and zone that of the first %25 before it.
ParseBracketed(host, i, zone, go) ==
    IF i = 0 THEN HostFailed(UrlError("errorString", Bytes("missing ']' in host")))
    ELSE IF ~validOptionalPort(From(host, i + 1))
        THEN HostFailed(UrlError("invalid port", From(host, i + 1)))
    ELSE IF zone # 0
        THEN BracketedAddr(
                 ParseZone(host, i, zone,
                           unescape(SubSeq(host, 1, zone - 1), "encodeHost"),
                           unescape(SubSeq(host, zone, i - 1), "encodeZone"),
                           unescape(From(host, i), "encodeHost")),
                 go)
    ELSE BracketedAddr([err |-> unescape(host, "encodeHost").err,
                        host |-> unescape(host, "encodeHost").s], go)

\* The releases that read the port after the first colon when
\* urlstrictcolons is set.
StrictColons(go) == go.release \in { "go1.26", "go1.26.1" } /\ go.urlstrictcolons

\* parseHost of a host without an opening bracket, or in go1.19 without one
\* at its start: the port starts at colon, the position of the last colon,
\* or of the first under urlstrictcolons.
ParseUnbracketed(host, colon) ==
    IF colon # 0 /\ ~validOptionalPort(From(host, colon))
        THEN HostFailed(UrlError("invalid port", From(host, colon)))
    ELSE [err |-> unescape(host, "encodeHost").err,
          host |-> unescape(host, "encodeHost").s]

\* parseHost from go1.24.8 on, of a host whose last opening bracket is at
\* open and whose last closing bracket is at close: what stands before the
\* opening bracket is dropped, and go1.26.1 refuses the host if there is
\* anything.
ParseFromBracket(host, open, close, go) ==
    IF open > 1 /\ go.release = "go1.26.1"
        THEN HostFailed(UrlError("errorString", Bytes("invalid IP-literal")))
    ELSE IF close = 0
        THEN HostFailed(UrlError("errorString", Bytes("missing ']' in host")))
    ELSE IF close < open
        THEN HostFailed(UrlError("invalid port", From(host, close + 1)))
    ELSE ParseBracketed(From(host, open), close - open + 1,
                        Index(SubSeq(host, open, close - 1), Pct25), go)

\* parseHost(host) in the build go, [release, urlstrictcolons].
parseHost(host, go) ==
    IF go.release = "go1.19"
        THEN IF HasPrefix(host, << Code("[") >>)
             THEN ParseBracketed(host, LastIndex(host, << Code("]") >>),
                      Index(SubSeq(host, 1, LastIndex(host, << Code("]") >>) - 1),
                            Pct25),
                      go)
             ELSE ParseUnbracketed(host, LastIndex(host, << Code(":") >>))
    ELSE IF Contains(host, << Code("[") >>)
        THEN ParseFromBracket(host, LastIndex(host, << Code("[") >>),
                              LastIndex(host, << Code("]") >>), go)
    ELSE IF StrictColons(go)
        THEN ParseUnbracketed(host, Index(host, << Code(":") >>))
    ELSE ParseUnbracketed(host, LastIndex(host, << Code(":") >>))

\* validUserinfo
UserinfoChars == AlphaNum \cup Codes("-._:~!$&'()*+,;=%@")
validUserinfo(s) == \A i \in 1..Len(s) : s[i] \in UserinfoChars

\* parseAuthority: [err, user, host]
AuthorityFailed(e) == [err |-> e, user |-> NoUser, host |-> << >>]

ParseUserinfo(name, pass, passwordSet, h) ==
    IF name.err # NoError THEN AuthorityFailed(name.err)
    ELSE IF pass.err # NoError THEN AuthorityFailed(pass.err)
    ELSE [err |-> NoError,
          user |-> [set |-> TRUE, username |-> name.s, password |-> pass.s,
                    passwordSet |-> passwordSet],
          host |-> h.host]

ParseAuthorityAt(authority, i, h) ==
    IF h.err # NoError THEN AuthorityFailed(h.err)
    ELSE IF i = 0 THEN [err |-> NoError, user |-> NoUser, host |-> h.host]
    ELSE IF ~validUserinfo(SubSeq(authority, 1, i - 1))
        THEN AuthorityFailed(UrlError("errorString", Bytes("net/url: invalid userinfo")))
    ELSE IF ~Contains(SubSeq(authority, 1, i - 1), << Code(":") >>)
        THEN ParseUserinfo(unescape(SubSeq(authority, 1, i - 1), "encodeUserPassword"),
                           unescape(<< >>, "encodeUserPassword"), FALSE, h)
    ELSE ParseUserinfo(
             unescape(Cut(SubSeq(authority, 1, i - 1), << Code(":") >>).before,
                      "encodeUserPassword"),
             unescape(Cut(SubSeq(authority, 1, i - 1), << Code(":") >>).after,
                      "encodeUserPassword"),
             TRUE, h)

parseAuthority(authority, go) ==
    ParseAuthorityAt(authority, LastIndex(authority, << Code("@") >>),
                     parseHost(From(authority, LastIndex(authority, << Code("@") >>) + 1),
                               go))

\* parse's result: [err, url]
ParseFailed(e) == [err |-> e, url |-> NoURL]

\* URL.setPath, as parse ends with it: RawPath is kept only where it is
\* not the default encoding of Path.
SetPathTo(url, p, u) ==
    IF u.err # NoError THEN ParseFailed(u.err)
    ELSE [err |-> NoError,
          url |-> [url EXCEPT !.Path = u.s,
                              !.RawPath = IF escape(u.s, "encodePath") = p
                                          THEN << >> ELSE p]]
setPath(url, p) == SetPathTo(url, p, unescape(p, "encodePath"))

\* parse, with the authority parsed: rest is the path.
ParseAfterAuthority(url, rest, a) ==
    IF a.err # NoError THEN ParseFailed(a.err)
    ELSE setPath([url EXCEPT !.User = a.user, !.Host = a.host], rest)

\* parse, from the authority on: after is what follows the two slashes, and
\* the authority ends at its first slash.
ParseFromAuthority(url, after, i, go) ==
    IF i = 0 THEN ParseAfterAuthority(url, << >>, parseAuthority(after, go))
    ELSE ParseAfterAuthority(url, From(after, i),
                             parseAuthority(SubSeq(after, 1, i - 1), go))

Slash == Bytes("/")

\* parse, with the scheme and the query split off.
ParseRest(url, rest, go) ==
    IF ~HasPrefix(rest, Slash) /\ url.Scheme # << >>
        THEN [err |-> NoError, url |-> [url EXCEPT !.Opaque = rest]]
    ELSE IF ~HasPrefix(rest, Slash) /\ Contains(Cut(rest, Slash).before, << Code(":") >>)
        THEN ParseFailed(UrlError("errorString",
                 Bytes("first path segment in URL cannot contain colon")))
    ELSE IF /\ url.Scheme # << >> \/ ~HasPrefix(rest, Bytes("///"))
            /\ HasPrefix(rest, Bytes("//"))
        THEN ParseFromAuthority(url, From(rest, 3), Index(From(rest, 3), Slash), go)
    ELSE setPath([url EXCEPT !.OmitHost = url.Scheme # << >> /\ HasPrefix(rest, Slash)],
                 rest)

\* parse, with the scheme split off: a lone trailing ? forces an empty
\* query; else the query is what follows the first ?.
ParseQuery(scheme, rest, go) ==
    IF HasSuffix(rest, << Code("?") >>) /\ Count(rest, << Code("?") >>) = 1
    THEN ParseRest([NoURL EXCEPT !.Scheme = scheme, !.ForceQuery = TRUE],
                   SubSeq(rest, 1, Len(rest) - 1), go)
    ELSE ParseRest([NoURL EXCEPT !.Scheme = scheme,
                                 !.RawQuery = Cut(rest, << Code("?") >>).after],
                   Cut(rest, << Code("?") >>).before, go)

ParseScheme(g, go) ==
    IF g.err
    THEN ParseFailed(UrlError("errorString", Bytes("missing protocol scheme")))
    ELSE ParseQuery(ToLower(g.scheme), g.rest, go)

\* stringContainsCTLByte
stringContainsCTLByte(s) == \E i \in 1..Len(s) : s[i] < 32 \/ s[i] = 127

\* parse(rawURL, false), as the release go has it
parse(rawURL, go) ==
    IF stringContainsCTLByte(rawURL)
        THEN ParseFailed(UrlError("errorString",
                 Bytes("net/url: invalid control character in URL")))
    ELSE IF rawURL = << Code("*") >>
        THEN [err |-> NoError, url |-> [NoURL EXCEPT !.Path = << Code("*") >>]]
    ELSE ParseScheme(getScheme(rawURL), go)

\* The errors a function of main.go returns: nil; an error made by
\* errors.New or fmt.Errorf, with its message; or the *url.Error of
\* url.Parse, with its fields Op, URL and Err.
NilErr == [nil |-> TRUE, type |-> "", msg |-> << >>,
           Op |-> << >>, URL |-> << >>, Err |-> NoError]
Err(m) == [NilErr EXCEPT !.nil = FALSE, !.type = "errorString", !.msg = m]
ParseError(url, e) ==
    [NilErr EXCEPT !.nil = FALSE, !.type = "*url.Error", !.Op = Bytes("parse"),
                   !.URL = url, !.Err = e]

\* URL.setFragment, as Parse ends with it.
SetFragmentTo(rawURL, url, frag, f) ==
    IF f.err # NoError THEN [err |-> ParseError(rawURL, f.err), url |-> NoURL]
    ELSE [err |-> NilErr,
          url |-> [url EXCEPT !.Fragment = f.s,
                              !.RawFragment = IF escape(f.s, "encodeFragment") = frag
                                              THEN << >> ELSE frag]]

\* Parse, with the fragment cut off: u is the URL before the #.
ParseCut(rawURL, u, frag, r) ==
    IF r.err # NoError THEN [err |-> ParseError(u, r.err), url |-> NoURL]
    ELSE IF frag = << >> THEN [err |-> NilErr, url |-> r.url]
    ELSE SetFragmentTo(rawURL, r.url, frag, unescape(frag, "encodeFragment"))

\* url.Parse(rawURL), as the release go has it: [err, url]
UrlParse(rawURL, go) ==
    ParseCut(rawURL, Cut(rawURL, << Code("#") >>).before,
             Cut(rawURL, << Code("#") >>).after,
             parse(Cut(rawURL, << Code("#") >>).before, go))

\* URL.EscapedPath: RawPath where it is a valid encoding of Path.
EscapedPath(u) ==
    IF /\ u.RawPath # << >>
       /\ validEncoded(u.RawPath, "encodePath")
       /\ unescape(u.RawPath, "encodePath") = [err |-> NoError, s |-> u.Path]
        THEN u.RawPath
    ELSE IF u.Path = << Code("*") >> THEN u.Path
    ELSE escape(u.Path, "encodePath")

\* URL.EscapedFragment
EscapedFragment(u) ==
    IF /\ u.RawFragment # << >>
       /\ validEncoded(u.RawFragment, "encodeFragment")
       /\ unescape(u.RawFragment, "encodeFragment") = [err |-> NoError, s |-> u.Fragment]
        THEN u.RawFragment
    ELSE escape(u.Fragment, "encodeFragment")

\* Userinfo.String
UserinfoString(user) ==
    escape(user.username, "encodeUserPassword")
        \o (IF user.passwordSet
            THEN << Code(":") >> \o escape(user.password, "encodeUserPassword")
            ELSE << >>)

\* URL.String, up to the path: the scheme and the authority.
URLPrefix(u) ==
    (IF u.Scheme # << >> THEN u.Scheme \o << Code(":") >> ELSE << >>)
    \o (IF (u.Scheme # << >> \/ u.Host # << >> \/ u.User.set)
           /\ ~(u.OmitHost /\ u.Host = << >> /\ ~u.User.set)
        THEN (IF u.Host # << >> \/ u.Path # << >> \/ u.User.set
              THEN Bytes("//") ELSE << >>)
             \o (IF u.User.set THEN UserinfoString(u.User) \o << Code("@") >>
                 ELSE << >>)
             \o escape(u.Host, "encodeHost")
        ELSE << >>)

\* URL.String, from the path on.
URLPath(u, prefix, path) ==
    (IF path # << >> /\ path[1] # Code("/") /\ u.Host # << >> THEN Slash ELSE << >>)
    \o (IF /\ prefix = << >>
           /\ ~(path # << >> /\ path[1] # Code("/") /\ u.Host # << >>)
           /\ Contains(Cut(path, Slash).before, << Code(":") >>)
        THEN Bytes("./") ELSE << >>)
    \o path

\* URL.String
URLString(u) ==
    (IF u.Opaque # << >>
     THEN (IF u.Scheme # << >> THEN u.Scheme \o << Code(":") >> ELSE << >>) \o u.Opaque
     ELSE URLPrefix(u) \o URLPath(u, URLPrefix(u), EscapedPath(u)))
    \o (IF u.ForceQuery \/ u.RawQuery # << >>
        THEN << Code("?") >> \o u.RawQuery ELSE << >>)
    \o (IF u.Fragment # << >>
        THEN << Code("#") >> \o EscapedFragment(u) ELSE << >>)
(***************************************************************************)
(* The program state.                                                      *)
(***************************************************************************)
VARIABLES
    pc,         \* the statement the process is at
    mode,       \* "" until RunE dispatches, then "push", "download" or "usage"
    args,       \* the positional arguments RunE receives
    flags,      \* the pushCmd fields as the flag parser left them (never changed)
    env,        \* the process environment: variable -> [ok, v] (os.LookupEnv)
    home,       \* the user lookup and ~/.cfconfig: [userOK, file, cfg]
    p,          \* the pushCmd
    consulted,  \* setAccessTokenFromConfigFile has been called
    repo,       \* push: the repository descriptor, [nil, URL, Username, Password]
    chart,      \* push: the loaded chart, [nil, Name, Version]
    client,     \* the transfer client: the options NewClient was given
    tmpDir,     \* push: the temporary directory: "none", "exists" or "removed"
    deferred,   \* push: defer os.RemoveAll(tmp) is registered
    parsedURL,  \* download: the local parsedURL
    filePath,   \* download: the local filePath
    given,      \* what the download pseudo-URL was built from:
                \* [built, user, host, kind, stored, segs, tail], stored
                \* being the host url.Parse keeps where it takes the URL
    repos,      \* the local repository list: name -> [URL, Username, Password]
    world,      \* which collaborator calls succeed: [newClient, tempDir,
                \* package, transport, removeAll]
    toolchain,  \* the build: [release, urlstrictcolons], the release of Go
                \* the plugin was built with, one of GoVersions, and
                \* whether GODEBUG sets urlstrictcolons=1 where it runs
    server,     \* the response the server gives: [StatusCode, json, members,
                \* spaced, escaped, raw, readErr]
    resp,       \* the HTTP response: [nil, StatusCode, Body, readErr]
    stdout,     \* what the process has printed on standard output
    err,        \* the error RunE returns (NilErr, Err or ParseError)
    exitCode,   \* -1 while running; 0, 1, or 2 after a run-time panic
    calls,      \* the collaborators called so far
    failure     \* the collaborator call that failed, "" if none

vars == << pc, mode, args, flags, env, home, p, consulted, repo, chart, client,
           tmpDir, deferred, parsedURL, filePath, given, repos, world, toolchain,
           server, resp, stdout, err, exitCode, calls, failure >>

NilRepo   == [nil |-> TRUE, URL |-> << >>, Username |-> << >>, Password |-> << >>]
NilChart  == [nil |-> TRUE, Name |-> << >>, Version |-> << >>]
NilResp   == [nil |-> TRUE, StatusCode |-> 0, Body |-> << >>, readErr |-> FALSE]
NilClient == [nil |-> TRUE, URL |-> << >>, Username |-> << >>, Password |-> << >>,
              AccessToken |-> << >>, AuthHeader |-> << >>, ContextPath |-> << >>,
              CAFile |-> << >>, CertFile |-> << >>, KeyFile |-> << >>,
              InsecureSkipVerify |-> FALSE]
NoGiven   == [built |-> FALSE, user |-> << >>, host |-> << >>, segs |-> << >>,
              tail |-> << >>, kind |-> "",
              stored |-> << >>]

\* The string settings of pushCmd that an environment variable can fill in,
\* and the variable of each (lines 107-135).
StringFields == { "username", "password", "accessToken", "authHeader",
                  "contextPath", "caFile", "certFile", "keyFile" }
\* The boolean settings an environment variable overrides (lines 122, 136).
BoolFields == { "useHTTP", "InsecureSkipVerify" }

EnvName(f) ==
    CASE f = "username"           -> "HELM_REPO_USERNAME"
      [] f = "password"           -> "HELM_REPO_PASSWORD"
      [] f = "accessToken"        -> "HELM_REPO_ACCESS_TOKEN"
      [] f = "authHeader"         -> "HELM_REPO_AUTH_HEADER"
      [] f = "contextPath"        -> "HELM_REPO_CONTEXT_PATH"
      [] f = "useHTTP"            -> "HELM_REPO_USE_HTTP"
      [] f = "caFile"             -> "HELM_REPO_CA_FILE"
      [] f = "certFile"           -> "HELM_REPO_CERT_FILE"
      [] f = "keyFile"            -> "HELM_REPO_KEY_FILE"
      [] f = "InsecureSkipVerify" -> "HELM_REPO_INSECURE"

EnvNames == { EnvName(f) : f \in StringFields \cup BoolFields }

Absent == [ok |-> FALSE, v |-> << >>]
Present(v) == [ok |-> TRUE, v |-> v]

\* The pushCmd of newPushCmd: every field at its flag default.
ZeroCmd ==
    [chartName |-> << >>, chartVersion |-> << >>, repoName |-> << >>, username |-> << >>,
     password |-> << >>, accessToken |-> << >>, authHeader |-> << >>, contextPath |-> << >>,
     forceUpload |-> FALSE, useHTTP |-> FALSE, caFile |-> << >>, certFile |-> << >>,
     keyFile |-> << >>, InsecureSkipVerify |-> FALSE]

(***************************************************************************)
(* newPushCmd's RunE: the dispatch on the shape of the arguments.          *)
(***************************************************************************)

\* The scheme markers main.go looks for and writes.
CmScheme == Bytes("cm://")
HttpScheme == Bytes("http://")
HttpsScheme == Bytes("https://")

UsageMsg ==
    Bytes("This command needs 2 arguments: name of chart, name of chart repository (or repo URL)")

\* A dispatch that does not count the arguments.
IsDownloadShapeAnyCount(a) == Len(a) >= 4 /\ HasPrefix(a[4], CmScheme)

\* len(args) == 4 && strings.HasPrefix(args[3], "cm://")
IsDownloadShape(a) == Len(a) = 4 /\ HasPrefix(a[4], CmScheme)

RunE ==
    /\ pc = "RunE"
    /\ IF IsDownloadShape(args)
       THEN /\ mode' = "download"
            /\ pc' = "setFieldsFromEnv"
            /\ UNCHANGED << p, err >>
       ELSE IF Len(args) # 2
       THEN /\ mode' = "usage"
            /\ err' = Err(UsageMsg)
            /\ pc' = "main"
            /\ UNCHANGED p
       ELSE /\ mode' = "push"
            /\ p' = [p EXCEPT !.chartName = args[1], !.repoName = args[2]]
            /\ pc' = "setFieldsFromEnv"
            /\ UNCHANGED err
    /\ UNCHANGED << args, flags, env, home, consulted, repo, chart, client,
                    tmpDir, deferred, parsedURL, filePath, given, repos, world, toolchain, server, resp,
                    stdout, exitCode, calls, failure >>

(***************************************************************************)
(* setFieldsFromEnv and setAccessTokenFromConfigFile.                      *)
(***************************************************************************)

\* A lookup that lets the environment override a flag.
StringFromEnvAlways(cur, name) ==
    IF env[name].ok THEN env[name].v ELSE cur

\* if v, ok := os.LookupEnv(name); ok && cur == "" { cur = v }
StringFromEnv(cur, name) ==
    IF env[name].ok /\ cur = << >> THEN env[name].v ELSE cur

\* if v, ok := os.LookupEnv(name); ok { cur, _ = strconv.ParseBool(v) }
BoolFromEnv(cur, name) ==
    IF env[name].ok THEN ParseBool(env[name].v).val ELSE cur

\* Lines 107-138: the pushCmd after the environment has been applied.
FieldsFromEnv(c) ==
    [c EXCEPT
        !.username           = StringFromEnv(@, "HELM_REPO_USERNAME"),
        !.password           = StringFromEnv(@, "HELM_REPO_PASSWORD"),
        !.accessToken        = StringFromEnv(@, "HELM_REPO_ACCESS_TOKEN"),
        !.authHeader         = StringFromEnv(@, "HELM_REPO_AUTH_HEADER"),
        !.contextPath        = StringFromEnv(@, "HELM_REPO_CONTEXT_PATH"),
        !.useHTTP            = BoolFromEnv(@, "HELM_REPO_USE_HTTP"),
        !.caFile             = StringFromEnv(@, "HELM_REPO_CA_FILE"),
        !.certFile           = StringFromEnv(@, "HELM_REPO_CERT_FILE"),
        !.keyFile            = StringFromEnv(@, "HELM_REPO_KEY_FILE"),
        !.InsecureSkipVerify = BoolFromEnv(@, "HELM_REPO_INSECURE")]

\* A resolver that reads the credentials file whatever the token is.
NeedsConfigFileAlways(c) == TRUE

\* Line 140: the credentials file is read when no token is set yet.
NeedsConfigFile(c) == c.accessToken = << >>

\* Where RunE goes on after setFieldsFromEnv: p.download or p.push.
AfterEnv == IF mode = "download" THEN "download" ELSE "push"

SetFieldsFromEnv ==
    /\ pc = "setFieldsFromEnv"
    /\ p' = FieldsFromEnv(p)
    /\ pc' = IF NeedsConfigFile(p') THEN "setAccessTokenFromConfigFile"
             ELSE AfterEnv
    /\ UNCHANGED << mode, args, flags, env, home, consulted, repo, chart,
                    client, tmpDir, deferred, parsedURL, filePath, given, repos, world, toolchain,
                    server, resp, stdout, err, exitCode, calls, failure >>

\* Lines 162-167: the contexts the loop can stop at.  The range over a Go
\* map visits the entries in no fixed order, so any of them may be the one.
MatchingContexts(c) == { ctx \in c.Contexts : ctx.Name = c.CurrentContext }

\* Lines 146-161: the file was found, read and decoded.
ConfigLoaded(h) == h.userOK /\ h.file = "ok"

SetAccessTokenFromConfigFile ==
    /\ pc = "setAccessTokenFromConfigFile"
    /\ consulted' = TRUE
    /\ IF ConfigLoaded(home) /\ MatchingContexts(home.cfg) # {}
       THEN \E ctx \in MatchingContexts(home.cfg) :
                p' = [p EXCEPT !.accessToken = ctx.Token]
       ELSE UNCHANGED p
    /\ pc' = AfterEnv
    /\ UNCHANGED << mode, args, flags, env, home, repo, chart, client, tmpDir,
                    deferred, parsedURL, filePath, given, repos, world, toolchain, server, resp, stdout,
                    err, exitCode, calls, failure >>

(***************************************************************************)
(* The collaborators of package helm and package chartmuseum (cm), which   *)
(* main.go calls: modelled from their description, not from their code.    *)
(***************************************************************************)

\* regexp.MustCompile(`^https?://`).MatchString(s)
MatchesHTTPScheme(s) == HasPrefix(s, HttpScheme) \/ HasPrefix(s, HttpsScheme)

\* helm.TempRepoFromURL: an ephemeral descriptor with the URL as base URL and
\* no stored credentials; no descriptor and an error for a URL that url.Parse
\* of the release go refuses.
TempRepoFromURL(url, go) ==
    IF ~UrlParse(url, go).err.nil
    THEN [repo |-> NilRepo, err |-> UrlParse(url, go).err]
    ELSE [repo |-> [nil |-> FALSE, URL |-> url, Username |-> << >>,
                    Password |-> << >>],
          err  |-> NilErr]

\* helm.GetRepoByName: the registered repository of that name, or an error.
GetRepoByName(name) ==
    IF name \in DOMAIN repos
    THEN [repo |-> [nil |-> FALSE, URL |-> repos[name].URL,
                    Username |-> repos[name].Username,
                    Password |-> repos[name].Password],
          err  |-> NilErr]
    ELSE [repo |-> NilRepo,
          err  |-> Err(Bytes("no repo named \"") \o name \o Bytes("\" found"))]

\* The charts on disk: the name or path of each, with its declared version.
Charts ==
    (Bytes("mychart") :> [nil |-> FALSE, Name |-> Bytes("mychart"),
                          Version |-> Bytes("0.1.0")])

\* helm.GetChartByName: the chart at that name or path, or an error.
GetChartByName(name) ==
    IF name \in DOMAIN Charts
    THEN [chart |-> Charts[name], err |-> NilErr]
    ELSE [chart |-> NilChart, err |-> Err(Bytes("no chart found at ") \o name)]

\* ioutil.TempDir("", "helm-push-"): the directory it creates.
TmpDirName == Bytes("/tmp/helm-push-012345678")

\* helm.CreateChartPackage: the archive's path in the output directory.
ChartPackagePath(c, dir) ==
    dir \o Bytes("/") \o c.Name \o Bytes("-") \o c.Version \o Bytes(".tgz")

\* A character of a string as the server writes it: the quote and the
\* backslash behind a backslash, the backspace as \b, any other control
\* character, and the character chosen for it, as \u00XX.
LowerHex == Bytes("0123456789abcdef")
RenderChar(c, asEscape) ==
    IF c = 8 THEN Bytes("\\b")
    ELSE IF asEscape \/ c < 32
        THEN Bytes("\\u00") \o << LowerHex[(c \div 16) + 1], LowerHex[(c % 16) + 1] >>
    ELSE IF c \in { Code("\""), Code("\\") } THEN << Code("\\"), c >>
    ELSE << c >>

\* A string as the server writes it; with escaped set, its first character
\* is written as an escape.
RECURSIVE RenderChars(_, _)
RenderChars(s, escaped) ==
    IF s = << >> THEN << >>
    ELSE RenderChar(s[1], escaped) \o RenderChars(Tail(s), FALSE)

RenderString(s, escaped) ==
    << Code("\"") >> \o RenderChars(s, escaped) \o << Code("\"") >>

\* The body the server writes: its JSON object, compact or spaced out, or
\* its raw text.
RenderValue(m, escaped) ==
    CASE m.kind = "string" -> RenderString(m.text, escaped)
      [] m.kind = "number" -> m.text
      [] OTHER             -> Bytes("null")

RECURSIVE RenderMembers(_, _, _)
RenderMembers(ms, spaced, escaped) ==
    IF ms = << >> THEN << >>
    ELSE RenderString(Head(ms).key, escaped)
         \o (IF spaced THEN Bytes(" : ") ELSE Bytes(":"))
         \o RenderValue(Head(ms), escaped)
         \o (IF Len(ms) = 1 THEN << >>
             ELSE IF spaced THEN Bytes(" , ") ELSE Bytes(","))
         \o RenderMembers(Tail(ms), spaced, escaped)

RenderBody(sv) ==
    IF ~sv.json THEN sv.raw
    ELSE IF sv.spaced
        THEN Bytes("{ ") \o RenderMembers(sv.members, TRUE, sv.escaped) \o Bytes(" }\n")
    ELSE Bytes("{") \o RenderMembers(sv.members, FALSE, sv.escaped) \o Bytes("}")

\* The response to an upload or a download.
ServerResponse ==
    [nil |-> FALSE, StatusCode |-> server.StatusCode,
     Body |-> RenderBody(server), readErr |-> server.readErr]

(***************************************************************************)
(* The response interpreter (lines 305-339).  A handler's result is the    *)
(* error it returns and what it prints.                                    *)
(***************************************************************************)

StatusCreated == 201
StatusOK == 200

\* The error of ioutil.ReadAll on a body that cannot be read to its end.
ReadErr == Err(Bytes("unexpected EOF"))

FallbackText == Bytes(": could not properly parse response JSON: ")

\* An envelope rule that takes an empty message for a message.
getChartmuseumErrorEmpty(b, code) ==
    LET er == Unmarshal(b)
    IN  IF er.err
        THEN Err(Itoa(code) \o FallbackText \o b)
        ELSE Err(Itoa(code) \o Bytes(": ") \o er.Error)

getChartmuseumError(b, code) ==
    LET er == Unmarshal(b)
    IN  IF er.err \/ er.Error = << >>
        THEN Err(Itoa(code) \o FallbackText \o b)
        ELSE Err(Itoa(code) \o Bytes(": ") \o er.Error)

\* An upload handler that takes every 2xx status for success.
handlePushResponseAny2xx(r) ==
    IF r.StatusCode < 200 \/ r.StatusCode > 299
    THEN IF r.readErr
         THEN [err |-> ReadErr, out |-> << >>]
         ELSE [err |-> getChartmuseumError(r.Body, r.StatusCode), out |-> << >>]
    ELSE [err |-> NilErr, out |-> Bytes("Done.\n")]

handlePushResponse(r) ==
    IF r.StatusCode # StatusCreated
    THEN IF r.readErr
         THEN [err |-> ReadErr, out |-> << >>]
         ELSE [err |-> getChartmuseumError(r.Body, r.StatusCode), out |-> << >>]
    ELSE [err |-> NilErr, out |-> Bytes("Done.\n")]

\* A download handler that ends its output with a line feed.
handleDownloadResponseLn(r) ==
    IF r.readErr
    THEN [err |-> ReadErr, out |-> << >>]
    ELSE IF r.StatusCode # StatusOK
    THEN [err |-> getChartmuseumError(r.Body, r.StatusCode), out |-> << >>]
    ELSE [err |-> NilErr, out |-> r.Body \o Bytes("\n")]

handleDownloadResponse(r) ==
    IF r.readErr
    THEN [err |-> ReadErr, out |-> << >>]
    ELSE IF r.StatusCode # StatusOK
    THEN [err |-> getChartmuseumError(r.Body, r.StatusCode), out |-> << >>]
    ELSE [err |-> NilErr, out |-> r.Body]

(***************************************************************************)
(* pushCmd.push (lines 170-250), statement by statement.  Every return     *)
(* goes through PushReturn, where the deferred call runs.                  *)
(***************************************************************************)

inputs == << args, flags, env, home, given, repos, world, toolchain, server >>

\* Lines 176-185: the repository is resolved.  Line 178 reads repo.URL
\* before line 183 looks at err: with no descriptor it is a nil dereference.
PushResolveRepo ==
    /\ pc = "push"
    /\ IF MatchesHTTPScheme(p.repoName)
       THEN \E r \in { TempRepoFromURL(p.repoName, toolchain) } :
                /\ calls' = calls \cup { "TempRepoFromURL" }
                /\ repo' = r.repo
                /\ IF r.repo.nil
                   THEN /\ pc' = "panic"
                        /\ failure' = "TempRepoFromURL"
                        /\ UNCHANGED << p, err >>
                   ELSE /\ p' = [p EXCEPT !.repoName = r.repo.URL]
                        /\ IF ~r.err.nil
                           THEN /\ err' = r.err
                                /\ failure' = "TempRepoFromURL"
                                /\ pc' = "push_return"
                           ELSE /\ pc' = "push_chart"
                                /\ UNCHANGED << err, failure >>
       ELSE \E r \in { GetRepoByName(p.repoName) } :
                /\ calls' = calls \cup { "GetRepoByName" }
                /\ repo' = r.repo
                /\ UNCHANGED p
                /\ IF ~r.err.nil
                   THEN /\ err' = r.err
                        /\ failure' = "GetRepoByName"
                        /\ pc' = "push_return"
                   ELSE /\ pc' = "push_chart"
                        /\ UNCHANGED << err, failure >>
    /\ UNCHANGED << mode, consulted, chart, client, tmpDir, deferred, parsedURL,
                    filePath, resp, stdout, exitCode >>
    /\ UNCHANGED inputs

\* Lines 187-195: the chart is loaded, and its version overridden.
PushGetChart ==
    /\ pc = "push_chart"
    /\ \E c \in { GetChartByName(p.chartName) } :
           /\ calls' = calls \cup { "GetChartByName" }
           /\ IF ~c.err.nil
              THEN /\ err' = c.err
                   /\ failure' = "GetChartByName"
                   /\ pc' = "push_return"
                   /\ UNCHANGED chart
              ELSE /\ chart' = IF p.chartVersion # << >>
                               THEN [c.chart EXCEPT !.Version = p.chartVersion]
                               ELSE c.chart
                   /\ pc' = "push_client"
                   /\ UNCHANGED << err, failure >>
    /\ UNCHANGED << mode, p, consulted, repo, client, tmpDir, deferred,
                    parsedURL, filePath, resp, stdout, exitCode >>
    /\ UNCHANGED inputs

\* A rewriting of every cm:// in the URL.
PushURLAll(repoURL, useHTTP) ==
    IF useHTTP
    THEN Replace(repoURL, CmScheme, HttpScheme, -1)
    ELSE Replace(repoURL, CmScheme, HttpsScheme, -1)

\* Lines 207-213: the stored cm:// marker is rewritten.
PushURL(repoURL, useHTTP) ==
    IF useHTTP
    THEN Replace(repoURL, CmScheme, HttpScheme, 1)
    ELSE Replace(repoURL, CmScheme, HttpsScheme, 1)

\* Lines 197-226: the options push hands to cm.NewClient.
PushClientOptions(c, r) ==
    [nil                |-> FALSE,
     URL                |-> PushURL(r.URL, c.useHTTP),
     Username           |-> IF c.username # << >> THEN c.username ELSE r.Username,
     Password           |-> IF c.password # << >> THEN c.password ELSE r.Password,
     AccessToken        |-> c.accessToken,
     AuthHeader         |-> c.authHeader,
     ContextPath        |-> c.contextPath,
     CAFile             |-> c.caFile,
     CertFile           |-> c.certFile,
     KeyFile            |-> c.keyFile,
     InsecureSkipVerify |-> c.InsecureSkipVerify]

\* Lines 197-230: the credentials are merged and the client is built.
PushNewClient ==
    /\ pc = "push_client"
    /\ calls' = calls \cup { "NewClient" }
    /\ IF world.newClient
       THEN /\ client' = PushClientOptions(p, repo)
            /\ pc' = "push_tmp"
            /\ UNCHANGED << err, failure >>
       ELSE /\ err' = Err(Bytes("could not build the client"))
            /\ failure' = "NewClient"
            /\ pc' = "push_return"
            /\ UNCHANGED client
    /\ UNCHANGED << mode, p, consulted, repo, chart, tmpDir, deferred,
                    parsedURL, filePath, resp, stdout, exitCode >>
    /\ UNCHANGED inputs

\* Lines 232-236: the temporary directory is created and its removal deferred.
PushTempDir ==
    /\ pc = "push_tmp"
    /\ calls' = calls \cup { "TempDir" }
    /\ IF world.tempDir
       THEN /\ tmpDir' = "exists"
            /\ deferred' = TRUE
            /\ pc' = "push_package"
            /\ UNCHANGED << err, failure >>
       ELSE /\ err' = Err(Bytes("could not create the temporary directory"))
            /\ failure' = "TempDir"
            /\ pc' = "push_return"
            /\ UNCHANGED << tmpDir, deferred >>
    /\ UNCHANGED << mode, p, consulted, repo, chart, client, parsedURL,
                    filePath, resp, stdout, exitCode >>
    /\ UNCHANGED inputs

\* Lines 238-243: the chart is packaged and the push announced.
PushPackage ==
    /\ pc = "push_package"
    /\ calls' = calls \cup { "CreateChartPackage" }
    /\ IF world.package
       THEN /\ stdout' = stdout \o Bytes("Pushing ")
                           \o Base(ChartPackagePath(chart, TmpDirName))
                           \o Bytes(" to ") \o p.repoName \o Bytes("...\n")
            /\ pc' = "push_upload"
            /\ UNCHANGED << err, failure >>
       ELSE /\ err' = Err(Bytes("could not package the chart"))
            /\ failure' = "CreateChartPackage"
            /\ pc' = "push_return"
            /\ UNCHANGED stdout
    /\ UNCHANGED << mode, p, consulted, repo, chart, client, tmpDir, deferred,
                    parsedURL, filePath, resp, exitCode >>
    /\ UNCHANGED inputs

\* Lines 244-247: the upload.
PushUpload ==
    /\ pc = "push_upload"
    /\ calls' = calls \cup { "UploadChartPackage" }
    /\ IF world.transport
       THEN /\ resp' = ServerResponse
            /\ pc' = "push_response"
            /\ UNCHANGED << err, failure >>
       ELSE /\ err' = Err(Bytes("could not reach the server"))
            /\ failure' = "UploadChartPackage"
            /\ pc' = "push_return"
            /\ UNCHANGED resp
    /\ UNCHANGED << mode, p, consulted, repo, chart, client, tmpDir, deferred,
                    parsedURL, filePath, stdout, exitCode >>
    /\ UNCHANGED inputs

\* Line 249: return handlePushResponse(resp)
HandlePushResponse ==
    /\ pc = "push_response"
    /\ \E r \in { handlePushResponse(resp) } :
           /\ err' = r.err
           /\ stdout' = stdout \o r.out
    /\ pc' = "push_return"
    /\ UNCHANGED << mode, p, consulted, repo, chart, client, tmpDir, deferred,
                    parsedURL, filePath, resp, exitCode, calls, failure >>
    /\ UNCHANGED inputs

\* A push that removes the directory only at the end of a successful run.
PushReturnOnSuccess ==
    /\ pc = "push_return"
    /\ tmpDir' = IF deferred /\ err.nil /\ world.removeAll THEN "removed"
                 ELSE tmpDir
    /\ calls' = IF deferred /\ err.nil THEN calls \cup { "RemoveAll" } ELSE calls
    /\ pc' = "main"
    /\ UNCHANGED << mode, p, consulted, repo, chart, client, deferred,
                    parsedURL, filePath, resp, stdout, err, exitCode, failure >>
    /\ UNCHANGED inputs

\* push returns: a registered defer os.RemoveAll(tmp) runs (line 236).  The
\* error of os.RemoveAll is discarded: when the removal fails the directory
\* stays, and what push returns is what it returned without it.
PushReturn ==
    /\ pc = "push_return"
    /\ tmpDir' = IF deferred /\ world.removeAll THEN "removed" ELSE tmpDir
    /\ calls' = IF deferred THEN calls \cup { "RemoveAll" } ELSE calls
    /\ pc' = "main"
    /\ UNCHANGED << mode, p, consulted, repo, chart, client, deferred,
                    parsedURL, filePath, resp, stdout, err, exitCode, failure >>
    /\ UNCHANGED inputs

\* The nil dereference of line 178: the Go run time prints the panic and the
\* process exits with status 2; RunE never returns.
Panic ==
    /\ pc = "panic"
    /\ exitCode' = 2
    /\ pc' = "exited"
    /\ UNCHANGED << mode, p, consulted, repo, chart, client, tmpDir, deferred,
                    parsedURL, filePath, resp, stdout, err, calls, failure >>
    /\ UNCHANGED inputs

(***************************************************************************)
(* pushCmd.download (lines 252-303).                                       *)
(***************************************************************************)

\* Lines 264-278: the file path and the base endpoint, from the parts of
\* the path.
DownloadSplit(url, parts, numParts, numRemoveParts, useHTTP) ==
    [err |-> NilErr,
     parsedURL |->
         [url EXCEPT
             !.Path = Join(SubSeq(parts, 1, numParts - numRemoveParts), Slash),
             !.Scheme = IF useHTTP THEN Bytes("http") ELSE Bytes("https")],
     filePath |-> IF numRemoveParts = 2 THEN Bytes("charts/") \o parts[numParts]
                  ELSE parts[numParts]]

\* A split that looks for charts in the last part instead of the one before.
DownloadPartsLast(fileURL, url, parts, useHTTP) ==
    IF Len(parts) <= 1
    THEN [err |-> Err(Bytes("invalid file url: ") \o fileURL),
          parsedURL |-> url, filePath |-> << >>]
    ELSE DownloadSplit(url, parts, Len(parts),
                       IF parts[Len(parts)] = Bytes("charts") THEN 2 ELSE 1,
                       useHTTP)

\* Lines 258-270: the parts of the path, and how many of them to remove.
DownloadParts(fileURL, url, parts, useHTTP) ==
    IF Len(parts) <= 1
    THEN [err |-> Err(Bytes("invalid file url: ") \o fileURL),
          parsedURL |-> url, filePath |-> << >>]
    ELSE DownloadSplit(url, parts, Len(parts),
                       IF parts[Len(parts) - 1] = Bytes("charts") THEN 2 ELSE 1,
                       useHTTP)

\* Lines 253-256: the pseudo-URL is parsed.
DownloadParsed(fileURL, u, useHTTP) ==
    IF ~u.err.nil
    THEN [err |-> u.err, parsedURL |-> NoURL, filePath |-> << >>]
    ELSE DownloadParts(fileURL, u.url, Split(u.url.Path, Slash), useHTTP)

\* Lines 253-278: the pseudo-URL is split into the base endpoint and the
\* file path.  [err, parsedURL, filePath]
DownloadTarget(fileURL, useHTTP, go) ==
    DownloadParsed(fileURL, UrlParse(fileURL, go), useHTTP)

DownloadParse ==
    /\ pc = "download"
    /\ \E t \in { DownloadTarget(args[4], p.useHTTP, toolchain) } :
           /\ parsedURL' = t.parsedURL
           /\ filePath' = t.filePath
           /\ err' = t.err
           /\ pc' = IF t.err.nil THEN "download_client" ELSE "main"
    /\ UNCHANGED << mode, p, consulted, repo, chart, client, tmpDir, deferred,
                    resp, stdout, exitCode, calls, failure >>
    /\ UNCHANGED inputs

\* Lines 280-291: the options download hands to cm.NewClient.
DownloadClientOptions(c, u) ==
    [nil                |-> FALSE,
     URL                |-> URLString(u),
     Username           |-> c.username,
     Password           |-> c.password,
     AccessToken        |-> c.accessToken,
     AuthHeader         |-> c.authHeader,
     ContextPath        |-> c.contextPath,
     CAFile             |-> c.caFile,
     CertFile           |-> c.certFile,
     KeyFile            |-> c.keyFile,
     InsecureSkipVerify |-> c.InsecureSkipVerify]

\* Lines 280-295: the client is built.
DownloadNewClient ==
    /\ pc = "download_client"
    /\ calls' = calls \cup { "NewClient" }
    /\ IF world.newClient
       THEN /\ client' = DownloadClientOptions(p, parsedURL)
            /\ pc' = "download_fetch"
            /\ UNCHANGED << err, failure >>
       ELSE /\ err' = Err(Bytes("could not build the client"))
            /\ failure' = "NewClient"
            /\ pc' = "main"
            /\ UNCHANGED client
    /\ UNCHANGED << mode, p, consulted, repo, chart, tmpDir, deferred,
                    parsedURL, filePath, resp, stdout, exitCode >>
    /\ UNCHANGED inputs

\* Lines 297-300: the download.
DownloadFetch ==
    /\ pc = "download_fetch"
    /\ calls' = calls \cup { "DownloadFile" }
    /\ IF world.transport
       THEN /\ resp' = ServerResponse
            /\ pc' = "download_response"
            /\ UNCHANGED << err, failure >>
       ELSE /\ err' = Err(Bytes("could not reach the server"))
            /\ failure' = "DownloadFile"
            /\ pc' = "main"
            /\ UNCHANGED resp
    /\ UNCHANGED << mode, p, consulted, repo, chart, client, tmpDir, deferred,
                    parsedURL, filePath, stdout, exitCode >>
    /\ UNCHANGED inputs

\* Line 302: return handleDownloadResponse(resp)
HandleDownloadResponse ==
    /\ pc = "download_response"
    /\ \E r \in { handleDownloadResponse(resp) } :
           /\ err' = r.err
           /\ stdout' = stdout \o r.out
    /\ pc' = "main"
    /\ UNCHANGED << mode, p, consulted, repo, chart, client, tmpDir, deferred,
                    parsedURL, filePath, resp, exitCode, calls, failure >>
    /\ UNCHANGED inputs

(***************************************************************************)
(* main (lines 341-346): the exit status.                                  *)
(***************************************************************************)

Main ==
    /\ pc = "main"
    /\ exitCode' = IF err.nil THEN 0 ELSE 1
    /\ pc' = "exited"
    /\ UNCHANGED << mode, p, consulted, repo, chart, client, tmpDir, deferred,
                    parsedURL, filePath, resp, stdout, err, calls, failure >>
    /\ UNCHANGED inputs

Next ==
    \/ RunE
    \/ SetFieldsFromEnv
    \/ SetAccessTokenFromConfigFile
    \/ PushResolveRepo
    \/ PushGetChart
    \/ PushNewClient
    \/ PushTempDir
    \/ PushPackage
    \/ PushUpload
    \/ HandlePushResponse
    \/ PushReturn
    \/ Panic
    \/ DownloadParse
    \/ DownloadNewClient
    \/ DownloadFetch
    \/ HandleDownloadResponse
    \/ Main

(***************************************************************************)
(* The inputs of a run: the arguments, the flags, the environment, the     *)
(* credentials file, the repository list, the collaborators' outcomes and  *)
(* the server's response.  Every run starts at RunE, and the               *)
(* specifications differ in the inputs they draw.                          *)
(***************************************************************************)

MaxArgs == 5         \* the most positional arguments
MaxTouched == 2      \* the most settings given by flag or environment
MaxContexts == 2     \* the most contexts in the credentials file
MaxMembers == 2      \* the most members of the object in a response body
MaxChunks == 3       \* the most pieces a repository URL is made of
MaxSegs == 3         \* the most segments in a download pseudo-URL's path

\* The sequences over S of length at most n.
SeqsUpTo(S, n) == UNION { [1..k -> S] : k \in 0..n }

\* The subsets of S with at most n elements.
SubsetsUpTo(S, n) == { T \in SUBSET S : Cardinality(T) <= n }

RECURSIVE Concat(_)
Concat(ss) == IF Len(ss) = 0 THEN << >> ELSE Head(ss) \o Concat(Tail(ss))

EmptyEnv == [n \in EnvNames |-> Absent]

StoredRepo(url) ==
    (Bytes("chartmuseum") :> [URL |-> url, Username |-> Bytes("stored-user"),
                              Password |-> Bytes("stored-pass")])
StoredRepos == StoredRepo(Bytes("cm://charts.example.com"))

AllOK == [newClient |-> TRUE, tempDir |-> TRUE, package |-> TRUE,
          transport |-> TRUE, removeAll |-> TRUE]
\* At most one of the calls push goes through fails, and the removal of the
\* temporary directory succeeds or fails.
Worlds ==
    { [w EXCEPT !.removeAll = r] :
        w \in { AllOK } \cup { [AllOK EXCEPT ![c] = FALSE] :
                                  c \in DOMAIN AllOK \ { "removeAll" } },
        r \in BOOLEAN }

\* The builds: every release with the GODEBUG setting left alone, and go1.26
\* and go1.26.1 with urlstrictcolons=1 (a setting the earlier releases do
\* not know).
Build(release, strict) == [release |-> release, urlstrictcolons |-> strict]
Toolchains ==
    { Build(r, FALSE) : r \in GoVersions }
        \cup { Build("go1.26", TRUE), Build("go1.26.1", TRUE) }

RawServer(code, text, readErr) ==
    [StatusCode |-> code, json |-> FALSE, members |-> << >>, spaced |-> FALSE,
     escaped |-> FALSE, raw |-> text, readErr |-> readErr]
JSONServer(code, members, spaced, escaped) ==
    [StatusCode |-> code, json |-> TRUE, members |-> members, spaced |-> spaced,
     escaped |-> escaped, raw |-> << >>, readErr |-> FALSE]
Member(k, kind, t) == [key |-> k, kind |-> kind, text |-> t]

BaseServers ==
    { RawServer(201, << >>, FALSE),
      RawServer(200, Bytes("abc"), FALSE),
      RawServer(404, Bytes("oops"), FALSE),
      RawServer(500, << >>, TRUE),
      JSONServer(400, << Member(Bytes("error"), "string",
                                Bytes("version already exists")) >>,
                 FALSE, FALSE) }

NoHome == [userOK |-> TRUE, file |-> "missing",
           cfg |-> [CurrentContext |-> << >>, Contexts |-> {}]]
Context(n, t) == [Name |-> Bytes(n), Token |-> Bytes(t)]
DevHome == [userOK |-> TRUE, file |-> "ok",
            cfg |-> [CurrentContext |-> Bytes("dev"),
                     Contexts |-> { Context("dev", "tok-dev"),
                                    Context("prod", "tok-prod") }]]

\* The argument vector of these words.
RECURSIVE Args(_)
Args(words) ==
    IF Len(words) = 0 THEN << >>
    ELSE << Bytes(Head(words)) >> \o Args(Tail(words))

PushArgs == Args(<< "mychart", "chartmuseum" >>)
DownloadArgs ==
    Args(<< "helm", "cert", "key", "cm://charts.example.com/charts/foo-1.0.0.tgz" >>)

\* The arguments whose URL has a host the builds parse differently.
HostArgs ==
    { Args(<< "mychart", "https://[abc]" >>),
      Args(<< "mychart", "https://[::ffff:1.2.3.4]" >>),
      Args(<< "helm", "cert", "key", "cm://[1.2.3.4]:80/charts/x.tgz" >>),
      Args(<< "helm", "cert", "key", "cm://[fe80::1%25en0]/charts/x.tgz" >>),
      Args(<< "helm", "cert", "key", "cm://a:b:80/charts/x.tgz" >>),
      Args(<< "helm", "cert", "key", "cm://a[::1]:80/charts/x.tgz" >>) }

BaseArgs ==
    { Args(<< >>),
      Args(<< "mychart" >>),
      PushArgs,
      Args(<< "mychart", "unknown" >>),
      Args(<< "nochart", "chartmuseum" >>),
      Args(<< "mychart", "https://my.chart.repo.com" >>),
      Args(<< "mychart", "https://my.chart.repo.com/%zz" >>),
      Args(<< "mychart", "chartmuseum", "extra" >>),
      Args(<< "helm", "cert", "key", "https://charts.example.com/foo-1.0.0.tgz" >>),
      DownloadArgs,
      Args(<< "helm", "cert", "key", "cm://charts.example.com/mychart/foo-1.0.0.tgz" >>),
      Args(<< "helm", "cert", "key", "cm://charts.example.com" >>),
      Args(<< "helm", "cert", "key", "cm://charts.example.com/%zz" >>),
      Args(<< "helm", "cert", "key", "cm://charts.example.com/%zz#f" >>),
      Args(<< "helm", "cert", "key", "cm://a b/c/d" >>),
      Args(<< "helm", "cert", "key", "cm://h%41/c/d" >>),
      Args(<< "helm", "cert", "key", "cm://h/a\tb/c" >>),
      Args(<< "helm", "cert", "key", "cm://h/%0A/b#fr%20ag" >>),
      Args(<< "helm", "cert", "key", "cm://charts.example.com/foo-1.0.0.tgz", "extra" >>) }
        \cup HostArgs

BaseFlags ==
    { ZeroCmd,
      [ZeroCmd EXCEPT !.chartVersion = Bytes("2.0.0"),
                      !.username = Bytes("flag-user"),
                      !.forceUpload = TRUE] }

BaseEnvs ==
    { EmptyEnv,
      [EmptyEnv EXCEPT !["HELM_REPO_USE_HTTP"] = Present(Bytes("true")),
                       !["HELM_REPO_PASSWORD"] = Present(Bytes("env-pass"))] }

\* The state RunE starts in, whatever the inputs.
Start ==
    /\ pc = "RunE"
    /\ mode = ""
    /\ p = flags
    /\ consulted = FALSE
    /\ repo = NilRepo
    /\ chart = NilChart
    /\ client = NilClient
    /\ tmpDir = "none"
    /\ deferred = FALSE
    /\ parsedURL = NoURL
    /\ filePath = << >>
    /\ resp = NilResp
    /\ stdout = << >>
    /\ err = NilErr
    /\ exitCode = -1
    /\ calls = {}
    /\ failure = ""

\* A few inputs of every kind: every path through the program is taken.
InitBase ==
    /\ args \in BaseArgs
    /\ flags \in BaseFlags
    /\ env \in BaseEnvs
    /\ home \in { NoHome, DevHome }
    /\ given = NoGiven
    /\ repos = StoredRepos
    /\ world \in Worlds
    /\ ~world.removeAll => Len(args) = 2
    /\ toolchain \in Toolchains
    /\ toolchain # Build("go1.26", FALSE) => args \in HostArgs
    /\ server \in BaseServers
    /\ Start

Spec == InitBase /\ [][Next]_vars

(***************************************************************************)
(* SpecArgs: every argument vector of up to MaxArgs arguments.             *)
(***************************************************************************)

ArgTokens ==
    { Bytes("mychart"), Bytes("chartmuseum"),
      Bytes("cm://charts.example.com/charts/foo-1.0.0.tgz"),
      Bytes("https://my.chart.repo.com") }

InitArgs ==
    /\ args \in SeqsUpTo(ArgTokens, MaxArgs)
    /\ flags = ZeroCmd
    /\ env = EmptyEnv
    /\ home = NoHome
    /\ given = NoGiven
    /\ repos = StoredRepos
    /\ world = AllOK
    /\ toolchain = Build("go1.26", FALSE)
    /\ server \in { RawServer(201, << >>, FALSE), RawServer(200, Bytes("abc"), FALSE) }
    /\ Start

SpecArgs == (InitBase \/ InitArgs) /\ [][Next]_vars

(***************************************************************************)
(* SpecEnv: up to MaxTouched settings are given by a flag, by the          *)
(* environment, or by both; and the credentials file is in every state it  *)
(* can be in, with up to MaxContexts contexts.                             *)
(***************************************************************************)

\* What an environment variable can be: absent, empty, or one of two texts
\* (one of which ParseBool accepts and one of which it takes for true).
EnvOptions == { Absent, Present(<< >>), Present(Bytes("true")), Present(Bytes("0")) }

\* The value of a setting whose flag is given.
FlagValue(f) ==
    IF f = "InsecureSkipVerify" THEN TRUE
    ELSE IF f = "useHTTP" THEN FALSE          \* there is no such flag
    ELSE Bytes("flag-" \o f)

FlagsGiven(T, on) ==
    [f \in DOMAIN ZeroCmd |-> IF f \in T /\ on[f] THEN FlagValue(f) ELSE ZeroCmd[f]]

EnvGiven(T, ev) ==
    [n \in EnvNames |->
        IF \E f \in T : EnvName(f) = n
        THEN ev[CHOOSE f \in T : EnvName(f) = n]
        ELSE Absent]

InitEnv ==
    /\ args = DownloadArgs
    /\ \E T \in SubsetsUpTo(StringFields \cup BoolFields, MaxTouched) :
         \E on \in [T -> BOOLEAN], ev \in [T -> EnvOptions] :
            /\ flags = FlagsGiven(T, on)
            /\ env = EnvGiven(T, ev)
    /\ home \in { NoHome, DevHome }
    /\ given = NoGiven
    /\ repos = StoredRepos
    /\ world = AllOK
    /\ toolchain = Build("go1.26", FALSE)
    /\ server = RawServer(200, Bytes("abc"), FALSE)
    /\ Start

ContextPool == { Context("dev", "tok-dev"), Context("dev", "tok-dev-2"),
                 Context("dev", ""), Context("prod", "tok-prod"),
                 Context("", "tok-anon") }

Homes ==
    { [userOK |-> FALSE, file |-> "ok", cfg |-> DevHome.cfg] }
    \cup { [userOK |-> TRUE, file |-> f, cfg |-> DevHome.cfg] :
              f \in { "missing", "unreadable", "malformed" } }
    \cup { [userOK |-> TRUE, file |-> "ok",
            cfg |-> [CurrentContext |-> cur, Contexts |-> cs]] :
              cur \in { Bytes("dev"), << >> }, cs \in SubsetsUpTo(ContextPool, MaxContexts) }

InitConfigFile ==
    /\ args \in { PushArgs, DownloadArgs }
    /\ flags \in { ZeroCmd, [ZeroCmd EXCEPT !.accessToken = Bytes("flag-token")] }
    /\ env \in { [EmptyEnv EXCEPT !["HELM_REPO_ACCESS_TOKEN"] = e] :
                    e \in { Absent, Present(<< >>), Present(Bytes("env-token")) } }
    /\ home \in Homes
    /\ given = NoGiven
    /\ repos = StoredRepos
    /\ world = AllOK
    /\ toolchain = Build("go1.26", FALSE)
    /\ server = RawServer(200, Bytes("abc"), FALSE)
    /\ Start

SpecEnv == (InitBase \/ InitEnv \/ InitConfigFile) /\ [][Next]_vars

(***************************************************************************)
(* SpecResp: the server answers with every status of interest and every    *)
(* body made of up to MaxMembers members, or with text that is no object.  *)
(***************************************************************************)

MemberPool ==
    { Member(Bytes(k), v[1], Bytes(v[2])) :
        k \in { "error", "Error", "msg" },
        v \in { << "string", "boom" >>, << "string", "" >>,
                << "number", "5" >>, << "null", "" >> } }

\* Members whose text holds a quote, a backslash and a backspace.
QuotedPool ==
    { Member(Bytes(k), "string", Bytes("a\"\\") \o << 8 >>) : k \in { "error", "msg" } }

\* Bodies that are not a JSON object.
RawBodies ==
    { << >>, Bytes("oops"), Bytes("null"), Bytes("[1]"), Bytes("\"error\""),
      Bytes("{\"error\":\"boom\""), Bytes("{\"error\":\"boom\"} x"),
      Bytes("{error:\"boom\"}"), Bytes("{\"error\":\"boom\",}"),
      Bytes("{\"error\":\"\\x\"}"), << 255 >> }

Statuses == { 200, 201, 400 }

\* The objects of up to MaxMembers members, written plainly; the objects of
\* one member, also with escapes; and the bodies that are no object.
RichServers ==
    { JSONServer(c, ms, sp, FALSE) :
        c \in Statuses, ms \in SeqsUpTo(MemberPool, MaxMembers), sp \in BOOLEAN }
    \cup { JSONServer(c, << m >>, FALSE, e) :
             c \in Statuses, m \in MemberPool \cup QuotedPool, e \in BOOLEAN }
    \cup { RawServer(c, b, FALSE) : c \in Statuses, b \in RawBodies }
    \cup { RawServer(c, Bytes("abc"), TRUE) : c \in Statuses }

InitResp ==
    /\ args \in { PushArgs, DownloadArgs }
    /\ flags = ZeroCmd
    /\ env = EmptyEnv
    /\ home = NoHome
    /\ given = NoGiven
    /\ repos = StoredRepos
    /\ world = AllOK
    /\ toolchain = Build("go1.26", FALSE)
    /\ server \in RichServers
    /\ Start

SpecResp == (InitBase \/ InitResp) /\ [][Next]_vars

(***************************************************************************)
(* SpecURL: the stored repository URL is made of up to MaxChunks pieces,   *)
(* and the download pseudo-URL of a host, up to MaxSegs path segments and  *)
(* a query or fragment.                                                    *)
(***************************************************************************)

Chunks == { CmScheme, HttpScheme, Bytes("host"), Bytes("/x"), Bytes("c"),
            Bytes("m://") }

RepoURLs == { Concat(cs) : cs \in SeqsUpTo(Chunks, MaxChunks) }

UseHTTPEnvs ==
    { EmptyEnv, [EmptyEnv EXCEPT !["HELM_REPO_USE_HTTP"] = Present(Bytes("true"))] }

InitPushURL ==
    /\ \E u \in RepoURLs :
        \/ /\ args = PushArgs
           /\ repos = StoredRepo(u)
        \/ /\ args = << Bytes("mychart"), HttpsScheme \o u >>
           /\ repos = StoredRepos
    /\ flags = ZeroCmd
    /\ env \in UseHTTPEnvs
    /\ home = NoHome
    /\ given = NoGiven
    /\ world = AllOK
    /\ toolchain = Build("go1.26", FALSE)
    /\ server = RawServer(201, << >>, FALSE)
    /\ Start

\* The segments a path is made of, as they read once decoded.
Segments == { Bytes("a"), Bytes("charts"), Bytes("foo-1.0.0.tgz"), << >>,
              Bytes("b c") }

\* A segment as it is written in the pseudo-URL: a space is written %20.
Written(seg) == Replace(seg, Bytes(" "), Bytes("%20"), -1)

\* The path with these segments, decoded and as written: a slash before each.
RECURSIVE PathOf(_)
PathOf(segs) ==
    IF Len(segs) = 0 THEN << >> ELSE Slash \o Head(segs) \o PathOf(Tail(segs))

RECURSIVE WrittenPathOf(_)
WrittenPathOf(segs) ==
    IF Len(segs) = 0 THEN << >>
    ELSE Slash \o Written(Head(segs)) \o WrittenPathOf(Tail(segs))

\* The authority as it is written: the user information, if any, and the host.
Authority(g) ==
    (IF g.user = << >> THEN << >> ELSE g.user \o Bytes("@")) \o g.host

BuildURL(g) == CmScheme \o Authority(g) \o WrittenPathOf(g.segs) \o g.tail

\* An authority of a pseudo-URL: the user information, the host, the kind
\* of host it is ("plain" for a name with at most a port), and the host
\* url.Parse keeps where it takes the URL.
Auth(user, host, kind, stored) ==
    [user |-> Bytes(user), host |-> Bytes(host), kind |-> kind,
     stored |-> Bytes(stored)]

Authorities ==
    { Auth("", "", "plain", ""),
      Auth("", "charts.example.com", "plain", "charts.example.com"),
      Auth("u:p", "h:8080", "plain", "h:8080"),
      Auth("", "[fe80::1]:8080", "IPv6 in brackets", "[fe80::1]:8080"),
      Auth("", "[::ffff:1.2.3.4]", "IPv4-mapped in brackets", "[::ffff:1.2.3.4]"),
      Auth("", "[abc]", "name in brackets", "[abc]"),
      Auth("", "a:b:80", "colon before the port", "a:b:80"),
      Auth("", "a[::1]", "text before the bracket", "[::1]") }

\* A host that is plain is parsed alike by every build.
InitDownloadURL ==
    /\ \E a \in Authorities :
          /\ given \in { [built |-> TRUE, user |-> a.user, host |-> a.host,
                          kind |-> a.kind, stored |-> a.stored, segs |-> ss,
                          tail |-> t] :
                           ss \in SeqsUpTo(Segments, MaxSegs),
                           t \in IF a.kind = "plain"
                                 THEN { << >>, Bytes("?"), Bytes("?q=charts/x"),
                                        Bytes("#charts/x"), Bytes("#a%20b") }
                                 ELSE { << >>, Bytes("#charts/x") } }
          /\ toolchain \in IF a.kind = "plain" THEN { Build("go1.26", FALSE) }
                           ELSE Toolchains
    /\ args = << Bytes("helm"), Bytes("cert"), Bytes("key"), BuildURL(given) >>
    /\ flags = ZeroCmd
    /\ env \in UseHTTPEnvs
    /\ home = NoHome
    /\ repos = StoredRepos
    /\ world = AllOK
    /\ server = RawServer(200, Bytes("abc"), FALSE)
    /\ Start

SpecURL == (InitBase \/ InitPushURL \/ InitDownloadURL) /\ [][Next]_vars

(***************************************************************************)
(* The claims.                                                             *)
(***************************************************************************)

\* setFieldsFromEnv has applied the environment (lines 107-138).
EnvApplied == mode \in { "push", "download" } /\ pc # "setFieldsFromEnv"

\* The environment variable of setting f.
EnvOf(f) == env[EnvName(f)]

\* A string setting keeps a non-empty flag value, takes the environment's
\* value when the flag is empty and the variable present, and stays empty
\* otherwise.
StringRule(f) ==
    /\ flags[f] # << >> => p[f] = flags[f]
    /\ flags[f] = << >> /\ EnvOf(f).ok => p[f] = EnvOf(f).v
    /\ flags[f] = << >> /\ ~EnvOf(f).ok => p[f] = << >>

\* A boolean setting is the parsed variable when it is present, whatever the
\* flag, and the flag otherwise.
BoolRule(f) ==
    /\ EnvOf(f).ok => p[f] = (EnvOf(f).v \in { Bytes("1"), Bytes("t"), Bytes("T"),
                                                Bytes("TRUE"), Bytes("true"),
                                                Bytes("True") })
    /\ ~EnvOf(f).ok => p[f] = flags[f]

\* C1: after setFieldsFromEnv every string setting keeps its flag value when
\* that is non-empty and takes the environment value only when the flag is
\* empty and the variable present (accessToken: until the credentials file
\* is read); every boolean setting equals the parsed environment value when
\* the variable is present, whatever the flag, and the flag value otherwise.
C1_EnvPrecedence ==
    EnvApplied =>
        /\ \A f \in StringFields \ { "accessToken" } : StringRule(f)
        /\ ~consulted => StringRule("accessToken")
        /\ \A f \in BoolFields : BoolRule(f)

\* C1 witness: a flag and a variable were both given for a string setting,
\* and a variable turned off a boolean setting whose flag was on.
C1_Witness ==
    /\ pc = "exited"
    /\ flags.username # << >> /\ EnvOf("username").ok
    /\ EnvOf("username").v # flags.username
    /\ flags.InsecureSkipVerify /\ EnvOf("InsecureSkipVerify").ok
    /\ ~p.InsecureSkipVerify

\* C7: the shape of the arguments alone selects the mode: four arguments
\* whose fourth starts with cm:// is a download, two arguments is a push,
\* and every other shape returns the usage error with no setting resolved,
\* no repository resolved, no client built and no network call; no run
\* calls both the push and the download collaborators.
C7_Dispatch ==
    LET shape == IF Len(args) = 4 /\ Len(args[4]) >= 5
                    /\ SubSeq(args[4], 1, 5) = Bytes("cm://") THEN "download"
                 ELSE IF Len(args) = 2 THEN "push"
                 ELSE "usage"
        pushCalls == { "TempRepoFromURL", "GetRepoByName", "GetChartByName",
                       "TempDir", "CreateChartPackage", "UploadChartPackage" }
    IN  /\ pc # "RunE" => mode = shape
        /\ mode = "usage" =>
              /\ pc \in { "main", "exited" }
              /\ err = Err(UsageMsg)
              /\ calls = {} /\ repo.nil /\ client.nil /\ resp.nil
              /\ ~consulted /\ p = flags
              /\ pc = "exited" => exitCode = 1
        /\ mode = "download" => calls \cap pushCalls = {} /\ repo.nil
        /\ mode = "push" => "DownloadFile" \notin calls /\ parsedURL = NoURL
        /\ ~(pushCalls \cap calls # {} /\ "DownloadFile" \in calls)

\* C7 witness: four arguments whose fourth does not start with cm:// ended
\* in the usage error.
C7_Witness ==
    /\ Len(args) = 4
    /\ mode = "usage"
    /\ pc = "exited"
    /\ exitCode = 1

\* A push succeeded: the server answered the upload with 201.
PushSucceeded ==
    /\ mode = "push"
    /\ failure = ""
    /\ ~resp.nil /\ resp.StatusCode = StatusCreated

\* C8 as stated: once the push routine has returned, on whichever path, the
\* temporary packaging directory does not exist: it was never created or is
\* removed.
C8_AsStated ==
    pc \in { "main", "exited", "panic" } => tmpDir # "exists"

\* C8: once the push routine has returned, on whichever path, the removal
\* of the temporary packaging directory has been attempted if the directory
\* was created, and the directory does not exist unless that removal
\* failed: it was never created, or os.RemoveAll was called and, where it
\* succeeded, the directory is gone.  A failed removal leaves the directory
\* and is not reported: a push that succeeded still ends without an error.
C8_TmpDirGone ==
    /\ pc \in { "main", "exited", "panic" } =>
          /\ tmpDir = "exists" => ~world.removeAll
          /\ tmpDir # "none" =>
                /\ "RemoveAll" \in calls
                /\ tmpDir = IF world.removeAll THEN "removed" ELSE "exists"
          /\ tmpDir = "none" => "RemoveAll" \notin calls
          /\ pc = "exited" /\ PushSucceeded => err.nil /\ exitCode = 0
    /\ tmpDir = "none" => "CreateChartPackage" \notin calls
    /\ tmpDir # "none" => "TempDir" \in calls /\ world.tempDir

\* C8 witness: packaging failed after the directory was created, and the
\* directory is gone when push has returned.
C8_Witness ==
    /\ pc = "exited"
    /\ failure = "CreateChartPackage"
    /\ "RemoveAll" \in calls
    /\ world.removeAll
    /\ tmpDir = "removed"

\* C10: when repository resolution or chart loading fails, push returns that
\* error (exit status 1) without building a client, creating the temporary
\* directory or uploading; the descriptor is not used before the locator's
\* error is checked, so the failure never ends in a nil dereference.
C10_ResolutionErrorReturned ==
    failure \in { "TempRepoFromURL", "GetRepoByName", "GetChartByName" } =>
        /\ pc \in { "push_return", "main", "exited" }
        /\ ~err.nil
        /\ client.nil /\ tmpDir = "none" /\ "UploadChartPackage" \notin calls
        /\ pc = "exited" => exitCode = 1

\* The upload's response has been interpreted.
PushAnswered == mode = "push" /\ ~resp.nil /\ pc # "push_response"

\* The download's response has been interpreted.
DownloadAnswered == mode = "download" /\ ~resp.nil /\ pc # "download_response"

\* What push prints before it uploads.
Announced ==
    Bytes("Pushing ") \o chart.Name \o Bytes("-") \o chart.Version
        \o Bytes(".tgz to ") \o p.repoName \o Bytes("...\n")

\* C2 as stated: an upload succeeds and prints Done. exactly on status 201;
\* on every other status nothing is printed and the error is the one of the
\* envelope-parsing rule.
C2_AsStated ==
    PushAnswered =>
        /\ err.nil <=> resp.StatusCode = 201
        /\ resp.StatusCode = 201 => stdout = Announced \o Bytes("Done.\n")
        /\ resp.StatusCode # 201 =>
              /\ stdout = Announced
              /\ err = getChartmuseumError(resp.Body, resp.StatusCode)

\* C2 (amended): an upload succeeds and prints Done. exactly on status 201;
\* on every other status nothing is printed and the body is read: when the
\* read fails the read's error is returned, otherwise the error of the
\* envelope-parsing rule, so that status 400 with body
\* {"error":"version already exists"} gives 400: version already exists.
C2_PushResponse ==
    PushAnswered =>
        /\ err.nil <=> resp.StatusCode = 201
        /\ resp.StatusCode = 201 => stdout = Announced \o Bytes("Done.\n")
        /\ resp.StatusCode # 201 =>
              /\ stdout = Announced
              /\ resp.readErr => err = ReadErr
              /\ ~resp.readErr =>
                    err = getChartmuseumError(resp.Body, resp.StatusCode)
        /\ /\ resp.StatusCode = 400
           /\ ~resp.readErr
           /\ resp.Body = Bytes("{\"error\":\"version already exists\"}")
           => err = Err(Bytes("400: version already exists"))
        /\ pc = "exited" => exitCode = IF resp.StatusCode = 201 THEN 0 ELSE 1

\* C2 witness: the upload was answered 400 with the envelope, and the run
\* ended with its message and without Done.
C2_Witness ==
    /\ PushAnswered
    /\ pc = "exited"
    /\ resp.StatusCode = 400
    /\ err = Err(Bytes("400: version already exists"))
    /\ stdout = Announced

\* C3: a download whose body can be read prints the whole body, and nothing
\* else, and succeeds exactly on status 200; on every other status it prints
\* nothing and returns the error of the envelope-parsing rule, so that
\* status 404 with body oops gives
\* 404: could not properly parse response JSON: oops.
C3_DownloadResponse ==
    DownloadAnswered /\ ~resp.readErr =>
        /\ err.nil <=> resp.StatusCode = 200
        /\ resp.StatusCode = 200 => stdout = RenderBody(server)
        /\ resp.StatusCode # 200 =>
              /\ stdout = << >>
              /\ err = getChartmuseumError(RenderBody(server), resp.StatusCode)
        /\ resp.StatusCode = 404 /\ server.raw = Bytes("oops") /\ ~server.json =>
              err = Err(Bytes("404: could not properly parse response JSON: oops"))
        /\ pc = "exited" => exitCode = IF resp.StatusCode = 200 THEN 0 ELSE 1

\* C3 witness: status 200 with body abc was printed as abc, and the run
\* succeeded.
C3_Witness ==
    /\ DownloadAnswered
    /\ pc = "exited"
    /\ resp.StatusCode = 200
    /\ ~server.json /\ server.raw = Bytes("abc")
    /\ stdout = Bytes("abc")
    /\ exitCode = 0

\* A response was turned into an error by the envelope-parsing rule.
EnvelopeParsed ==
    /\ ~resp.nil /\ ~resp.readErr
    /\ \/ mode = "push" /\ pc # "push_response" /\ resp.StatusCode # 201
       \/ mode = "download" /\ pc # "download_response"
          /\ resp.StatusCode # 200

\* The fallback message for the body the server wrote.
Fallback ==
    Err(Itoa(server.StatusCode)
        \o Bytes(": could not properly parse response JSON: ")
        \o RenderBody(server))

\* C4 as stated: the message is <c>: <error message> exactly when the body
\* is a JSON object with a non-empty string member named error, and the
\* fallback in every other case.
C4_AsStated ==
    LET ms == server.members
        named == { i \in 1..Len(ms) : /\ ms[i].key = Bytes("error")
                                      /\ ms[i].kind = "string"
                                      /\ ms[i].text # << >> }
    IN  EnvelopeParsed =>
            IF server.json /\ named # {}
            THEN \E i \in named :
                    err = Err(Itoa(server.StatusCode) \o Bytes(": ") \o ms[i].text)
            ELSE err = Fallback

\* C4 (amended): the error is never nil.  Of the members of the body's
\* object, those count whose name is error in any letter case.  The message
\* is <c>: <text> when the body is a JSON object, none of these members has
\* a value other than a string or null, and the last of them that is a
\* string is the non-empty <text>; it is the fallback with the raw body in
\* every other case.
C4_Envelope ==
    LET ms == server.members
        named == { i \in 1..Len(ms) : ToLower(ms[i].key) = Bytes("error") }
        strs == { i \in named : ms[i].kind = "string" }
        mistyped == \E i \in named : ms[i].kind \notin { "string", "null" }
    IN  EnvelopeParsed =>
            /\ ~err.nil
            /\ IF server.json /\ ~mistyped /\ strs # {}
               THEN \E i \in strs :
                       /\ \A j \in strs : j <= i
                       /\ err = IF ms[i].text # << >>
                                THEN Err(Itoa(server.StatusCode) \o Bytes(": ")
                                         \o ms[i].text)
                                ELSE Fallback
               ELSE err = Fallback

\* C4 witness: the object's member is named Error, its name and its text
\* are written with an escape, and the text is the message.
C4_Witness ==
    /\ EnvelopeParsed
    /\ server.json
    /\ Len(server.members) = 1
    /\ server.escaped
    /\ server.members[1].key = Bytes("Error")
    /\ err = Err(Bytes("400: boom"))

\* Push has built its transfer client.
PushClientBuilt == mode = "push" /\ ~client.nil

\* The places of the repository URL where cm:// is written.
Markers == { i \in 1..Len(repo.URL) :
               i + 4 <= Len(repo.URL)
               /\ SubSeq(repo.URL, i, i + 4) = Bytes("cm://") }

\* The scheme the insecure-transport setting selects.
Rewritten == IF p.useHTTP THEN Bytes("http://") ELSE Bytes("https://")

\* C5 as stated: the client's URL is the repository URL with cm:// rewritten
\* to http:// or https:// and nothing else altered, so it never retains
\* cm://, and a URL without cm:// is passed through unchanged.
C5_AsStated ==
    PushClientBuilt =>
        /\ \A i \in 1..Len(client.URL) :
              ~( i + 4 <= Len(client.URL)
                 /\ SubSeq(client.URL, i, i + 4) = Bytes("cm://") )
        /\ Markers = {} => client.URL = repo.URL
        /\ Markers # {} =>
              \E i \in Markers :
                  client.URL = SubSeq(repo.URL, 1, i - 1) \o Rewritten
                               \o SubSeq(repo.URL, i + 5, Len(repo.URL))

\* C5 (amended): the client's URL is the repository URL with the leftmost
\* cm:// rewritten to exactly http:// when useHTTP is set and to exactly
\* https:// otherwise, and nothing else altered; a URL without cm:// is
\* passed through unchanged, and the client's URL retains cm:// exactly when
\* the repository URL holds it more than once.
C5_PushURL ==
    PushClientBuilt =>
        /\ Markers = {} => client.URL = repo.URL
        /\ \A i \in Markers :
              (\A j \in Markers : i <= j) =>
                  client.URL = SubSeq(repo.URL, 1, i - 1) \o Rewritten
                               \o SubSeq(repo.URL, i + 5, Len(repo.URL))
        /\ ( \E i \in 1..Len(client.URL) :
                 /\ i + 4 <= Len(client.URL)
                 /\ SubSeq(client.URL, i, i + 4) = Bytes("cm://") )
           <=> Cardinality(Markers) >= 2

\* C5 witness: a client was built for a stored URL that holds cm:// twice,
\* with the insecure-transport setting on.
C5_Witness ==
    /\ PushClientBuilt
    /\ pc = "exited"
    /\ p.useHTTP
    /\ repo.URL = Bytes("cm://hostcm://")
    /\ client.URL = Bytes("http://hostcm://")

\* Download has split the pseudo-URL it was given as a host, path segments
\* and a query or fragment.
DownloadSplitDone ==
    /\ given.built
    /\ mode = "download"
    /\ pc \in { "download_client", "download_fetch", "download_response",
                "main", "exited" }

\* The hosts url.Parse refuses, by the kind of host and the build: a name in
\* brackets from go1.24.8 on, an IPv4-mapped address in brackets in go1.24.8,
\* a colon before the one of the port under urlstrictcolons, and text before
\* the opening bracket in go1.19 (which reads a port after the last colon)
\* and in go1.26.1; the releases between these two drop that text.
HostRefused(kind, go) ==
    \/ kind = "name in brackets" /\ go.release # "go1.19"
    \/ kind = "IPv4-mapped in brackets" /\ go.release = "go1.24.8"
    \/ /\ kind = "colon before the port"
       /\ go.release \in { "go1.26", "go1.26.1" } /\ go.urlstrictcolons
    \/ kind = "text before the bracket" /\ go.release \in { "go1.19", "go1.26.1" }

\* The authority url.Parse keeps: the user information, if any, and the host
\* it stores.
StoredAuthority(g) ==
    (IF g.user = << >> THEN << >> ELSE g.user \o Bytes("@")) \o g.stored

\* C6: with at least one segment after a slash, the file path is
\* charts/<last segment> and the base path loses its last two segments when
\* the segment before the last is charts, else the file path is the last
\* segment and only that is removed; the base scheme is http when useHTTP
\* is set and https otherwise, and the client is built for the base
\* endpoint; a path without a slash is rejected as an invalid file url
\* before any client is built.  A pseudo-URL has a path once url.Parse has
\* taken it: one whose host the build refuses (HostRefused) is returned as
\* the error of url.Parse, before any client is built, and the host of the
\* base endpoint is the host url.Parse keeps.
C6_DownloadTarget ==
    LET segs == given.segs
        n == Len(segs)
        removed == IF n >= 2 /\ segs[n - 1] = Bytes("charts") THEN 2 ELSE 1
        scheme == IF p.useHTTP THEN Bytes("http") ELSE Bytes("https")
        parses == ~HostRefused(given.kind, toolchain)
    IN  DownloadSplitDone =>
            /\ ~parses =>
                  /\ err.type = "*url.Error"
                  /\ err.Op = Bytes("parse")
                  /\ client.nil
                  /\ calls = {}
                  /\ pc \in { "main", "exited" }
            /\ parses /\ n = 0 =>
                  /\ err = Err(Bytes("invalid file url: ") \o args[4])
                  /\ client.nil
                  /\ calls = {}
                  /\ pc \in { "main", "exited" }
            /\ parses /\ n >= 1 =>
                  /\ filePath = IF removed = 2 THEN Bytes("charts/") \o segs[n]
                                ELSE segs[n]
                  /\ parsedURL.Path = PathOf(SubSeq(segs, 1, n - removed))
                  /\ parsedURL.Scheme = scheme
                  /\ parsedURL.Host = given.stored
                  /\ "NewClient" \in calls \/ pc = "download_client"
                  /\ ~client.nil /\ given.host # << >> =>
                        client.URL = scheme \o Bytes("://") \o StoredAuthority(given)
                                     \o WrittenPathOf(SubSeq(segs, 1, n - removed))
                                     \o given.tail

\* C6 witness: the path /b%20c/charts/foo-1.0.0.tgz gave the file path
\* charts/foo-1.0.0.tgz and the base path /b c, and the client was built
\* for https://charts.example.com/b%20c.
C6_Witness ==
    /\ DownloadSplitDone
    /\ pc = "exited"
    /\ given.segs = << Bytes("b c"), Bytes("charts"), Bytes("foo-1.0.0.tgz") >>
    /\ given.tail = << >>
    /\ filePath = Bytes("charts/foo-1.0.0.tgz")
    /\ parsedURL.Path = Bytes("/b c")
    /\ client.URL = Bytes("https://charts.example.com/b%20c")

\* C9: the credentials file is read exactly when the token is empty after
\* the flag and the environment, so a token from either is never replaced;
\* a token taken from the file is the token of a context whose name equals
\* current-context; when no context matches, or the file is missing,
\* unreadable or malformed, the token stays empty and the command goes on
\* without an error.
C9_ConfigFile ==
    LET envToken == env["HELM_REPO_ACCESS_TOKEN"]
        higher == IF flags.accessToken # << >> THEN flags.accessToken
                  ELSE IF envToken.ok THEN envToken.v ELSE << >>
        loaded == home.userOK /\ home.file = "ok"
        matching == IF loaded
                    THEN { c \in home.cfg.Contexts :
                             c.Name = home.cfg.CurrentContext }
                    ELSE {}
    IN  /\ consulted => higher = << >>
        /\ EnvApplied /\ pc # "setAccessTokenFromConfigFile" =>
              /\ consulted <=> higher = << >>
              /\ higher # << >> => p.accessToken = higher
              /\ higher = << >> /\ matching = {} => p.accessToken = << >>
              /\ higher = << >> /\ matching # {} =>
                    \E c \in matching : p.accessToken = c.Token
        /\ consulted /\ pc \in { "push", "download" } => err.nil

\* C9 witness: the file was read with two contexts in it, and the token is
\* the one of the context named by current-context.
C9_Witness ==
    /\ consulted
    /\ pc = "exited"
    /\ home.cfg.CurrentContext = Bytes("dev")
    /\ \E c \in home.cfg.Contexts : c.Name = Bytes("prod")
    /\ p.accessToken = Bytes("tok-dev")

=============================================================================
